---- MODULE Spec2Model ----
(***************************************************************************)
(* Billing terminal, bills page and backing store of the point-of-sale     *)
(* application.                                                            *)
(*                                                                         *)
(* Amounts are integers in 1/10000 rupee.  Menu prices have two decimals   *)
(* (multiples of 100) and tax percentages are whole numbers, so            *)
(* subtotal*tax/100 is an integer and \div computes it without loss.  The  *)
(* DECIMAL(10, 2) columns of the store round what is written to them to    *)
(* two decimals.  Row ids (uuid) and bill numbers (serial) are drawn from  *)
(* counters: a fresh value every time.                                     *)
(*                                                                         *)
(* Every store operation is one round trip; it is one step of the model,   *)
(* taken when its response arrives, and it may fail.  A handler that       *)
(* awaits several operations is a task that advances one operation per     *)
(* step and works on the values its closure captured when it was invoked.  *)
(***************************************************************************)
EXTENDS Integers, Sequences, FiniteSets, TLC

\* ------------------------------------------------------------------ bounds
MaxBills    == 1
MaxItemRows == 3
MaxQty      == 2    \* quantity of one cart line
MaxCart     == 2    \* lines in a cart
MaxFailures == 1    \* store operations that return an error

Sessions  == {"s1", "s2"}      \* billing terminals (browser tabs)
Terminals == {"s1"}            \* the terminals that act under Spec

NoId == 0                      \* null for an id (currentBillId, billToDelete)
null == "null"                 \* null for bills.payment_method

\* The active menu (menu_items with is_active), as fetchMenuItems loads it.
menuItems ==
  { [id |-> 101, name |-> "Tea",  price |-> 1000,   category |-> "Drinks"],   \*  0.10
    [id |-> 102, name |-> "Cake", price |-> 500000, category |-> "Food"] }     \* 50.00

Discounts      == {0, 10000}   \* values typed into the discount input: 0, 1.00
PaymentMethods == {"cash"}     \* values picked in the payment select

VARIABLES
  \* --- backing store
  bills,            \* table bills: id -> row
  bill_items,       \* table bill_items: set of rows
  nextBillId,       \* next bills.id / bill_number
  nextItemId,       \* next bill_items.id
  \* --- Billing component state, per terminal
  cart, discount, paymentMethod, currentBillId,
  settings, savedBills, todayRevenue,
  \* --- Billing async handlers in flight, per terminal
  save,             \* saveBill
  load,             \* loadBill / loadBillById
  print,            \* printBill
  pendingSaved,     \* a fetchSavedBills request is in flight
  pendingRevenue,   \* a fetchTodayRevenue request is in flight
  \* --- PreviousBills component
  previousBills,    \* state `bills` of the page: ids, newest first
  pendingBills,     \* a fetchBills request is in flight
  billToDelete,
  del,              \* deleteBill in flight
  \* --- observation
  event,            \* what the latest step did: handler, store operation, toast
  failures,         \* store operations that have returned an error so far
  saved,            \* bill id -> what the last successful saveBill of it wrote and
                    \*   whether it ran with the bill id bound,
                    \*   dropped as soon as anything else writes the bill
  \* --- calculateTotals on its own
  totalsArgs, totalsResult,
  \* --- table menu_items, as the management screen leaves it
  menu_items,
  \* --- Reports component
  startDate, endDate,
  revenueData,      \* the date-bucketed series
  paymentData,      \* the series by payment method
  selectedPeriod,
  totalRevenue, totalBills, avgBillValue,
  pendingReport,    \* the fetchRevenueData requests in flight: the ranges they captured
  \* --- the receipt of printBill on its own
  receiptArgs, receipt,
  \* --- table settings (its one row) and the fetchSettings requests in flight
  settingsRow, pendingSettings,
  \* --- downloadPDF of the Reports component
  pendingPdf,       \* the downloadPDF in flight: the state its render closed over
  pdf               \* the document the latest downloadPDF saved

storeVars  == <<bills, bill_items, nextBillId, nextItemId>>
cartVars   == <<cart, discount, paymentMethod, currentBillId>>
viewVars   == <<settings, savedBills, todayRevenue>>
fetchVars  == <<pendingSaved, pendingRevenue>>
pageVars   == <<previousBills, pendingBills, billToDelete, del>>
totalsVars == <<totalsArgs, totalsResult>>
reportVars == <<startDate, endDate, selectedPeriod, revenueData, paymentData,
                totalRevenue, totalBills, avgBillValue, pendingReport>>
receiptVars == <<receiptArgs, receipt>>
settingsVars == <<settingsRow, pendingSettings>>
pdfVars == <<pendingPdf, pdf>>
vars == <<storeVars, cartVars, viewVars, save, load, print, fetchVars, pageVars,
          event, failures, saved, totalsVars, menu_items, reportVars, receiptVars,
          settingsVars, pdfVars>>

\* ------------------------------------------------------------------ helpers
Range(s) == { s[i] : i \in DOMAIN s }

RECURSIVE SortDesc(_)
\* .order(col, { ascending: false }) on a set of ids created in id order
SortDesc(S) ==
  IF S = {} THEN <<>>
  ELSE LET m == CHOOSE x \in S : \A y \in S : y <= x
       IN <<m>> \o SortDesc(S \ {m})

RECURSIVE SortById(_)
\* the rows of S in insertion order, the order a heap scan returns them in
SortById(S) ==
  IF S = {} THEN <<>>
  ELSE LET m == CHOOSE x \in S : \A y \in S : x.id <= y.id
       IN <<m>> \o SortById(S \ {m})

RECURSIVE Reduce(_, _, _)
\* Array.prototype.reduce: left fold of f over seq from init
Reduce(f(_, _), seq, init) ==
  IF seq = <<>> THEN init
  ELSE Reduce(f, Tail(seq), f(init, Head(seq)))

\* the notification, store operation and handler of one step
Ev(fn, who, table, op, ok, toast, variant) ==
  [fn |-> fn, who |-> who, table |-> table, op |-> op, ok |-> ok,
   toast |-> toast, variant |-> variant, printed |-> FALSE]
Call(fn, who)                 == Ev(fn, who, "", "", TRUE, "", "")
CallToast(fn, who, t, v)      == Ev(fn, who, "", "", TRUE, t, v)
Op(fn, who, table, op, ok)    == Ev(fn, who, table, op, ok, "", "")
\* an edit of the cart form: no store operation, no toast
Edit(who)                     == Call("edit", who)

\* ------------------------------------------------------------------ dates
\* An instant is <<year, month, day, hour>> on the clock of the terminal's time zone.
\* toISOString() writes it in UTC and the store compares timestamps as instants, so
\* .gte and .lte order instants as the tuples are ordered.
lte(a, b) ==
  \/ a[1] < b[1]
  \/ a[1] = b[1] /\ a[2] < b[2]
  \/ a[1] = b[1] /\ a[2] = b[2] /\ a[3] < b[3]
  \/ a[1] = b[1] /\ a[2] = b[2] /\ a[3] = b[3] /\ a[4] <= b[4]
gte(a, b) == lte(b, a)

\* new Date(): the terminals' clock
now == <<2026, 1, 1, 12>>

\* date.setHours(0, 0, 0, 0)
startOfDay(d) == <<d[1], d[2], d[3], 0>>
\* date-fns startOfMonth
startOfMonth(d) == <<d[1], d[2], 1, 0>>

\* ------------------------------------------------------------------ Billing: cart
addToCart(c, item) ==
  IF \E i \in DOMAIN c : c[i].id = item.id
  THEN [i \in DOMAIN c |->
          IF c[i].id = item.id THEN [c[i] EXCEPT !.quantity = @ + 1] ELSE c[i]]
  ELSE Append(c, [id |-> item.id, name |-> item.name, price |-> item.price,
                  category |-> item.category, quantity |-> 1])

Max(a, b) == IF a >= b THEN a ELSE b

\* variant: the filter keeps a line whose quantity reached 0
updateQuantityKeepsZero(c, id, change) ==
  LET mapped == [i \in DOMAIN c |->
                   IF c[i].id = id
                   THEN [c[i] EXCEPT !.quantity = Max(0, @ + change)] ELSE c[i]]
  IN SelectSeq(mapped, LAMBDA item : item.quantity >= 0)

updateQuantity(c, id, change) ==
  LET mapped == [i \in DOMAIN c |->
                   IF c[i].id = id
                   THEN [c[i] EXCEPT !.quantity = Max(0, @ + change)] ELSE c[i]]
  IN SelectSeq(mapped, LAMBDA item : item.quantity > 0)

removeItem(c, id) == SelectSeq(c, LAMBDA item : item.id # id)

\* variant: the total floored at zero
calculateTotalsClamped(c, tax_percentage, d) ==
  LET AddLine(sum, item) == sum + item.price * item.quantity
      subtotal  == Reduce(AddLine, c, 0)
      taxAmount == (subtotal * tax_percentage) \div 100
      total     == Max(0, subtotal + taxAmount - d)
  IN [subtotal |-> subtotal, taxAmount |-> taxAmount, total |-> total]

calculateTotals(c, tax_percentage, d) ==
  LET AddLine(sum, item) == sum + item.price * item.quantity
      subtotal  == Reduce(AddLine, c, 0)
      taxAmount == (subtotal * tax_percentage) \div 100
      total     == subtotal + taxAmount - d
  IN [subtotal |-> subtotal, taxAmount |-> taxAmount, total |-> total]

\* ------------------------------------------------------------------ tasks
NoBillData ==
  [subtotal |-> 0, tax_amount |-> 0, discount |-> 0, total |-> 0,
   payment_method |-> null, status |-> "draft"]

IdleSave ==
  [pc |-> "idle", printAfter |-> FALSE, cart |-> <<>>, discount |-> 0,
   paymentMethod |-> "", billData |-> NoBillData, currentBillId |-> NoId, billId |-> NoId]
IdleLoad  == [pc |-> "idle", billId |-> NoId, billItems |-> <<>>, byId |-> FALSE, fresh |-> FALSE]
IdlePrint == [pc |-> "idle", billId |-> NoId, bill |-> FALSE]
IdleDel   == [pc |-> "idle"]

DefaultSettings == [tax_percentage |-> 5, shop_name |-> "My Shop"]

\* ------------------------------------------------------------------ store
\* the outcomes of one store operation: it went through (TRUE) or returned an error
Outcomes == IF failures < MaxFailures THEN BOOLEAN ELSE {TRUE}
Outcome(ok) == failures' = IF ok THEN failures ELSE failures + 1

\* a value as a DECIMAL(10, 2) column stores it: rounded to two decimals, ties away
\* from zero
decimal2(x) ==
  LET a == IF x < 0 THEN -x ELSE x
      r == ((a + 50) \div 100) * 100
  IN IF x < 0 THEN -r ELSE r

ItemsOf(b) == { it \in bill_items : it.bill_id = b }

\* .neq("status", "draft").gte("date", today.toISOString())
RevenueOf(rows) ==
  LET nonDraft == SortDesc({ b \in DOMAIN rows :
                               rows[b].status # "draft" /\ gte(rows[b].date, startOfDay(now)) })
      AddTotal(sum, b) == sum + rows[b].total
  IN Reduce(AddTotal, nonDraft, 0)

\* the cart lines as saveBill snapshots them, with fresh row ids from `first`
ItemRows(c, billId, first) ==
  { [id |-> first + i - 1, bill_id |-> billId,
     item_name_snapshot |-> c[i].name, price_snapshot |-> decimal2(c[i].price),
     quantity |-> c[i].quantity, line_total |-> decimal2(c[i].price * c[i].quantity)]
    : i \in DOMAIN c }

\* name, price and quantity of each line, with multiplicity
LineBag(lines) ==
  LET key == [i \in DOMAIN lines |-> <<lines[i].name, lines[i].price, lines[i].quantity>>]
  IN [k \in Range(key) |-> Cardinality({ i \in DOMAIN key : key[i] = k })]

\* a write to bill b by anyone: what was last saved is no longer what is stored,
\* and a load of b in flight has read a mix
Forget(b)   == [x \in DOMAIN saved \ {b} |-> saved[x]]
Disturb(b)  ==
  [s \in Sessions |->
     IF load[s].pc # "idle" /\ load[s].billId = b
     THEN [load[s] EXCEPT !.fresh = FALSE] ELSE load[s]]

\* ------------------------------------------------------------------ Init
InitStore ==
  /\ bills = << >>
  /\ bill_items = {}
  /\ nextBillId = 1
  /\ nextItemId = 1

InitBilling ==
  /\ cart = [s \in Sessions |-> <<>>]
  /\ discount = [s \in Sessions |-> 0]
  /\ paymentMethod = [s \in Sessions |-> ""]
  /\ currentBillId = [s \in Sessions |-> NoId]
  /\ settings = [s \in Sessions |-> DefaultSettings]
  /\ savedBills = [s \in Sessions |-> <<>>]
  /\ todayRevenue = [s \in Sessions |-> 0]
  /\ save = [s \in Sessions |-> IdleSave]
  /\ load = [s \in Sessions |-> IdleLoad]
  /\ print = [s \in Sessions |-> IdlePrint]
  /\ pendingSaved = [s \in Sessions |-> s \in Terminals]
  /\ pendingRevenue = [s \in Sessions |-> s \in Terminals]

InitPage ==
  /\ previousBills = <<>>
  /\ pendingBills = TRUE
  /\ billToDelete = NoId
  /\ del = IdleDel

InitObserved ==
  /\ event = Call("mount", "")
  /\ failures = 0
  /\ saved = << >>

\* the menu the terminals loaded is the menu in the store
InitMenu == menu_items = menuItems

NoTotals == [applied |-> FALSE, subtotal |-> 0, taxAmount |-> 0, total |-> 0]

\* a quotient of two numbers, kept exact: numerator over denominator
Quotient(n, d) == [num |-> n, den |-> d]
Zero == Quotient(0, 1)

\* the query of a fetchRevenueData that closed over the range [start, end]
ReportQuery(start, end) == [startDate |-> start, endDate |-> end]

\* Reports as constructed: the current month up to now, nothing fetched yet, and
\* the effect on [startDate, endDate] about to run fetchRevenueData
InitReports ==
  /\ startDate = startOfMonth(now)
  /\ endDate = now
  /\ selectedPeriod = "month"
  /\ revenueData = <<>>
  /\ paymentData = <<>>
  /\ totalRevenue = 0
  /\ totalBills = 0
  /\ avgBillValue = Zero
  /\ pendingReport = {ReportQuery(startOfMonth(now), now)}

NoReceipt == [path |-> "", lines |-> <<>>]
NoReceiptArgs == [bill |-> << >>, items |-> <<>>, settings |-> << >>]

InitReceipt == receiptArgs = NoReceiptArgs /\ receipt = NoReceipt

\* no downloadPDF has run
NoPdfRequest == [running |-> FALSE]
NoPdf == [saved |-> FALSE]

InitPdf == pendingPdf = NoPdfRequest /\ pdf = NoPdf

\* the settings row as the migration inserts it; the terminals have fetched it
InitSettings ==
  /\ settingsRow = DefaultSettings
  /\ pendingSettings = [s \in Sessions |-> FALSE]

Init ==
  /\ InitStore /\ InitBilling /\ InitPage /\ InitObserved /\ InitMenu /\ InitReports
  /\ InitReceipt /\ InitSettings /\ InitPdf
  /\ totalsArgs = [cart |-> <<>>, tax_percentage |-> 0, discount |-> 0]
  /\ totalsResult = NoTotals

\* ------------------------------------------------------------------ Billing: cart handlers
\* The user of a terminal acts when every request the terminal sent has come back.
Settled(s) ==
  /\ save[s].pc = "idle" /\ load[s].pc = "idle" /\ print[s].pc = "idle"
  /\ ~pendingSaved[s] /\ ~pendingRevenue[s]

\* The cart form is edited as long as a line item can still be inserted.
Editing(s) == Settled(s) /\ nextItemId <= MaxItemRows

\* a click on a menu card, while the cart stays within maxQty per line and maxCart lines
AddToCartWithin(s, maxQty, maxCart) ==
  \E item \in menuItems :
    /\ Editing(s)
    /\ \/ \E i \in DOMAIN cart[s] : cart[s][i].id = item.id /\ cart[s][i].quantity < maxQty
       \/ (\A i \in DOMAIN cart[s] : cart[s][i].id # item.id) /\ Len(cart[s]) < maxCart
    /\ cart' = [cart EXCEPT ![s] = addToCart(cart[s], item)]
    /\ event' = Edit(s)
    /\ UNCHANGED <<failures, storeVars, discount, paymentMethod, currentBillId, viewVars, save, load,
                   print, fetchVars, pageVars, saved, totalsVars, menu_items, reportVars,
                   receiptVars, settingsVars, pdfVars>>

AddToCart(s) == AddToCartWithin(s, MaxQty, MaxCart)

\* the plus and minus buttons of a cart line
UpdateQuantityWithin(s, maxQty) ==
  \E i \in DOMAIN cart[s], change \in {-1, 1} :
    /\ Editing(s)
    /\ cart[s][i].quantity + change <= maxQty
    /\ cart' = [cart EXCEPT ![s] = updateQuantity(cart[s], cart[s][i].id, change)]
    /\ event' = Edit(s)
    /\ UNCHANGED <<failures, storeVars, discount, paymentMethod, currentBillId, viewVars, save, load,
                   print, fetchVars, pageVars, saved, totalsVars, menu_items, reportVars,
                   receiptVars, settingsVars, pdfVars>>

UpdateQuantity(s) == UpdateQuantityWithin(s, MaxQty)

RemoveItem(s) ==
  \E i \in DOMAIN cart[s] :
    /\ Editing(s)
    /\ cart' = [cart EXCEPT ![s] = removeItem(cart[s], cart[s][i].id)]
    /\ event' = Edit(s)
    /\ UNCHANGED <<failures, storeVars, discount, paymentMethod, currentBillId, viewVars, save, load,
                   print, fetchVars, pageVars, saved, totalsVars, menu_items, reportVars,
                   receiptVars, settingsVars, pdfVars>>

SetDiscount(s) ==
  \E d \in Discounts :
    /\ Editing(s)
    /\ d # discount[s]
    /\ discount' = [discount EXCEPT ![s] = d]
    /\ event' = Edit(s)
    /\ UNCHANGED <<failures, storeVars, cart, paymentMethod, currentBillId, viewVars, save, load,
                   print, fetchVars, pageVars, saved, totalsVars, menu_items, reportVars,
                   receiptVars, settingsVars, pdfVars>>

SetPaymentMethod(s) ==
  \E m \in PaymentMethods :
    /\ Editing(s)
    /\ m # paymentMethod[s]
    /\ paymentMethod' = [paymentMethod EXCEPT ![s] = m]
    /\ event' = Edit(s)
    /\ UNCHANGED <<failures, storeVars, cart, discount, currentBillId, viewVars, save, load,
                   print, fetchVars, pageVars, saved, totalsVars, menu_items, reportVars,
                   receiptVars, settingsVars, pdfVars>>

\* variant: clearCart without setCurrentBillId(null)
clearCartKeepsBill(s) ==
  /\ cart' = [cart EXCEPT ![s] = <<>>]
  /\ discount' = [discount EXCEPT ![s] = 0]
  /\ paymentMethod' = [paymentMethod EXCEPT ![s] = ""]
  /\ UNCHANGED currentBillId

\* clearCart's four setters
clearCart(s) ==
  /\ cart' = [cart EXCEPT ![s] = <<>>]
  /\ discount' = [discount EXCEPT ![s] = 0]
  /\ paymentMethod' = [paymentMethod EXCEPT ![s] = ""]
  /\ currentBillId' = [currentBillId EXCEPT ![s] = NoId]

ClearCart(s) ==
  /\ Settled(s)
  /\ clearCart(s)
  /\ event' = Call("clearCart", s)
  /\ UNCHANGED <<failures, storeVars, viewVars, save, load, print, fetchVars, pageVars,
                 saved, totalsVars, menu_items, reportVars, receiptVars, settingsVars,
                 pdfVars>>

\* ------------------------------------------------------------------ Billing: saveBill
\* variant: `if (!cart)`, and an array is never falsy
cartIsFalsy(c) == FALSE

cartIsEmpty(c) == Len(c) = 0

billStatus(printAfter) == IF printAfter THEN "printed" ELSE "draft"

billData(c, tax_percentage, d, pm, printAfter) ==
  LET t == calculateTotals(c, tax_percentage, d)
  IN [subtotal |-> t.subtotal, tax_amount |-> t.taxAmount, discount |-> d,
      total |-> t.total, payment_method |-> (IF pm = "" THEN null ELSE pm),
      status |-> billStatus(printAfter)]

\* a bills row: the written columns, the serial bill_number and the date column
\* (DEFAULT NOW() at the insert, kept by an update)
Row(data, number, date) ==
  [bill_number |-> number, date |-> date, subtotal |-> decimal2(data.subtotal),
   tax_amount |-> decimal2(data.tax_amount),
   discount |-> decimal2(data.discount), total |-> decimal2(data.total),
   payment_method |-> data.payment_method, status |-> data.status]

\* a click on Save Bill or Save & Print, while the store holds fewer than maxBills bills
SaveBillWithin(s, printAfter, maxBills) ==
  /\ Settled(s)
  /\ IF cartIsEmpty(cart[s])
     THEN /\ event' = CallToast("saveBill", s, "Cart is empty", "destructive")
          /\ UNCHANGED save
     ELSE /\ currentBillId[s] = NoId => nextBillId <= maxBills
          /\ nextItemId + Len(cart[s]) - 1 <= MaxItemRows
          /\ save' = [save EXCEPT ![s] =
               [pc |-> IF currentBillId[s] # NoId THEN "update" ELSE "insert",
                printAfter |-> printAfter, cart |-> cart[s], discount |-> discount[s],
                paymentMethod |-> paymentMethod[s],
                billData |-> billData(cart[s], settings[s].tax_percentage, discount[s],
                                      paymentMethod[s], printAfter),
                currentBillId |-> currentBillId[s], billId |-> currentBillId[s]]]
          /\ event' = Call("saveBill", s)
  /\ UNCHANGED <<failures, storeVars, cartVars, viewVars, load, print, fetchVars, pageVars,
                 saved, totalsVars, menu_items, reportVars, receiptVars, settingsVars,
                 pdfVars>>

SaveBill(s, printAfter) == SaveBillWithin(s, printAfter, MaxBills)

SaveUpdateBill(s) ==
  /\ save[s].pc = "update"
  /\ \E ok \in Outcomes : Outcome(ok) /\
       LET b == save[s].currentBillId IN
       IF ok
       THEN /\ bills' = IF b \in DOMAIN bills
                        THEN [bills EXCEPT ![b] = Row(save[s].billData, @.bill_number, @.date)]
                        ELSE bills
            /\ save' = [save EXCEPT ![s].pc = "deleteItems"]
            /\ saved' = Forget(b)
            /\ load' = Disturb(b)
            /\ event' = Op("saveBill", s, "bills", "update", TRUE)
       ELSE /\ save' = [save EXCEPT ![s] = IdleSave]
            /\ event' = Ev("saveBill", s, "bills", "update", FALSE,
                           "Error updating bill", "destructive")
            /\ UNCHANGED <<bills, saved, load>>
  /\ UNCHANGED <<bill_items, nextBillId, nextItemId, cartVars, viewVars, print, fetchVars,
                 pageVars, totalsVars, menu_items, reportVars, receiptVars, settingsVars,
                 pdfVars>>

SaveDeleteItems(s) ==
  /\ save[s].pc = "deleteItems"
  /\ \E ok \in Outcomes : Outcome(ok) /\
       LET b == save[s].currentBillId IN
       /\ bill_items' = IF ok THEN bill_items \ ItemsOf(b) ELSE bill_items
       /\ saved' = IF ok THEN Forget(b) ELSE saved
       /\ load' = IF ok THEN Disturb(b) ELSE load
       /\ event' = Op("saveBill", s, "bill_items", "delete", ok)
  /\ save' = [save EXCEPT ![s].pc = "insertItems"]
  /\ UNCHANGED <<bills, nextBillId, nextItemId, cartVars, viewVars, print, fetchVars,
                 pageVars, totalsVars, menu_items, reportVars, receiptVars, settingsVars,
                 pdfVars>>

SaveInsertBillWithin(s, maxBills) ==
  /\ save[s].pc = "insert"
  /\ \E ok \in Outcomes : Outcome(ok) /\
       IF ok
       THEN /\ nextBillId <= maxBills
            /\ bills' = bills @@ (nextBillId :> Row(save[s].billData, nextBillId, now))
            /\ nextBillId' = nextBillId + 1
            /\ save' = [save EXCEPT ![s].pc = "insertItems", ![s].billId = nextBillId]
            /\ event' = Op("saveBill", s, "bills", "insert", TRUE)
       ELSE /\ save' = [save EXCEPT ![s] = IdleSave]
            /\ event' = Ev("saveBill", s, "bills", "insert", FALSE,
                           "Error creating bill", "destructive")
            /\ UNCHANGED <<bills, nextBillId>>
  /\ UNCHANGED <<bill_items, nextItemId, cartVars, viewVars, load, print, fetchVars,
                 pageVars, saved, totalsVars, menu_items, reportVars, receiptVars,
                 settingsVars, pdfVars>>

SaveInsertBill(s) == SaveInsertBillWithin(s, MaxBills)

\* variant: the toast without the return, so the save runs on to clear and refresh
SaveItemsFailedGoesOn(s) ==
  /\ save' = [save EXCEPT ![s] = IdleSave]
  /\ event' = Ev("saveBill", s, "bill_items", "insert", FALSE,
                 "Error saving items", "destructive")
  /\ clearCart(s)
  /\ pendingSaved' = [pendingSaved EXCEPT ![s] = TRUE]
  /\ pendingRevenue' = [pendingRevenue EXCEPT ![s] = TRUE]
  /\ UNCHANGED <<bill_items, nextItemId, print, saved, load>>

\* the line-item insert returned an error: toast and return
SaveItemsFailed(s) ==
  /\ save' = [save EXCEPT ![s] = IdleSave]
  /\ event' = Ev("saveBill", s, "bill_items", "insert", FALSE,
                 "Error saving items", "destructive")
  /\ UNCHANGED <<bill_items, nextItemId, cartVars, print, fetchVars, saved, load>>

\* the line-item insert went through: toast, print, clear, refresh
SaveSucceeded(s) ==
  LET t == save[s] IN
  /\ bill_items' = bill_items \cup ItemRows(t.cart, t.billId, nextItemId)
  /\ nextItemId' = nextItemId + Len(t.cart)
  /\ event' = Ev("saveBill", s, "bill_items", "insert", TRUE,
                 IF t.printAfter THEN "Bill saved & printed!" ELSE "Bill saved!", "default")
  /\ print' = IF t.printAfter
              THEN [print EXCEPT ![s] = [pc |-> "selectBill", billId |-> t.billId, bill |-> FALSE]]
              ELSE print
  /\ clearCart(s)
  /\ pendingSaved' = [pendingSaved EXCEPT ![s] = TRUE]
  /\ pendingRevenue' = [pendingRevenue EXCEPT ![s] = TRUE]
  /\ save' = [save EXCEPT ![s] = IdleSave]
  /\ saved' = [x \in DOMAIN saved \cup {t.billId} |->
                 IF x = t.billId
                 THEN [lines |-> LineBag(t.cart), discount |-> t.discount,
                       paymentMethod |-> t.paymentMethod,
                       bound |-> t.currentBillId # NoId]
                 ELSE saved[x]]
  /\ load' = Disturb(t.billId)

SaveInsertItems(s) ==
  /\ save[s].pc = "insertItems"
  /\ \E ok \in Outcomes : Outcome(ok) /\
       \* bill_id references bills(id): the insert fails when the row is gone
       IF ok /\ save[s].billId \in DOMAIN bills
       THEN nextItemId + Len(save[s].cart) - 1 <= MaxItemRows /\ SaveSucceeded(s)
       ELSE SaveItemsFailed(s)
  /\ UNCHANGED <<bills, nextBillId, viewVars, pageVars, totalsVars, menu_items, reportVars,
                 receiptVars, settingsVars, pdfVars>>

\* ------------------------------------------------------------------ Billing: printBill
PrintSelectBill(s) ==
  /\ print[s].pc = "selectBill"
  /\ \E ok \in Outcomes : Outcome(ok) /\
       /\ print' = [print EXCEPT ![s].pc = "selectItems",
                                 ![s].bill = ok /\ print[s].billId \in DOMAIN bills]
       /\ event' = Op("printBill", s, "bills", "select", ok /\ print[s].billId \in DOMAIN bills)
  /\ UNCHANGED <<storeVars, cartVars, viewVars, save, load, fetchVars, pageVars,
                 saved, totalsVars, menu_items, reportVars, receiptVars, settingsVars,
                 pdfVars>>

PrintSelectItems(s) ==
  /\ print[s].pc = "selectItems"
  /\ \E ok \in Outcomes, opened \in BOOLEAN : Outcome(ok) /\
       \* if (!bill || !items) return;  if (!printWindow) return;
       event' = [Op("printBill", s, "bill_items", "select", ok)
                   EXCEPT !.printed = print[s].bill /\ ok /\ opened]
  /\ print' = [print EXCEPT ![s] = IdlePrint]
  /\ UNCHANGED <<storeVars, cartVars, viewVars, save, load, fetchVars, pageVars,
                 saved, totalsVars, menu_items, reportVars, receiptVars, settingsVars,
                 pdfVars>>

\* ------------------------------------------------------------------ Billing: loadBill
\* variant: the restored line takes the price the menu has now for the item's name
cartOfItemsAtMenuPrice(rows) ==
  [i \in DOMAIN rows |->
     [id |-> rows[i].id, name |-> rows[i].item_name_snapshot,
      price |-> IF \E m \in menu_items : m.name = rows[i].item_name_snapshot
                THEN (CHOOSE m \in menu_items : m.name = rows[i].item_name_snapshot).price
                ELSE rows[i].price_snapshot,
      quantity |-> rows[i].quantity,
      category |-> "Uncategorized"]]

\* billItems.map(...) of loadBill: a cart line per snapshot row
cartOfItems(rows) ==
  [i \in DOMAIN rows |->
     [id |-> rows[i].id, name |-> rows[i].item_name_snapshot,
      price |-> rows[i].price_snapshot, quantity |-> rows[i].quantity,
      category |-> "Uncategorized"]]

\* a click on an entry of the Saved Bills list
LoadBill(s) ==
  \E i \in DOMAIN savedBills[s] :
    /\ Settled(s)
    /\ load' = [load EXCEPT ![s] =
         [pc |-> "selectItems", billId |-> savedBills[s][i], billItems |-> <<>>,
          byId |-> FALSE, fresh |-> FALSE]]
    /\ event' = Call("loadBill", s)
    /\ UNCHANGED <<failures, storeVars, cartVars, viewVars, save, print, fetchVars, pageVars,
                   saved, totalsVars, menu_items, reportVars, receiptVars, settingsVars,
                   pdfVars>>

LoadSelectItems(s) ==
  /\ load[s].pc = "selectItems"
  /\ \E ok \in Outcomes : Outcome(ok) /\
       /\ load' = [load EXCEPT ![s] =
            IF ok
            THEN [pc |-> "selectBill", billId |-> load[s].billId,
                  billItems |-> SortById(ItemsOf(load[s].billId)),
                  byId |-> load[s].byId, fresh |-> load[s].billId \in DOMAIN saved]
            ELSE IF load[s].byId
                 THEN [IdleLoad EXCEPT !.pc = "selectNumber", !.billId = load[s].billId,
                                       !.byId = TRUE]
                 ELSE IdleLoad]
       /\ event' = Op("loadBill", s, "bill_items", "select", ok)
  /\ UNCHANGED <<storeVars, cartVars, viewVars, save, print, fetchVars, pageVars,
                 saved, totalsVars, menu_items, reportVars, receiptVars, settingsVars,
                 pdfVars>>

LoadSelectBill(s) ==
  /\ load[s].pc = "selectBill"
  /\ \E ok \in Outcomes : Outcome(ok) /\
       LET b == load[s].billId
           found == ok /\ b \in DOMAIN bills
       IN /\ cart' = [cart EXCEPT ![s] = cartOfItems(load[s].billItems)]
          /\ IF found
             THEN /\ discount' = [discount EXCEPT ![s] = bills[b].discount]
                  /\ paymentMethod' = [paymentMethod EXCEPT ![s] =
                       IF bills[b].payment_method = null THEN "" ELSE bills[b].payment_method]
                  /\ currentBillId' = [currentBillId EXCEPT ![s] = b]
             ELSE UNCHANGED <<discount, paymentMethod, currentBillId>>
          /\ event' = Op("loadBill", s, "bills", "select", found)
  /\ load' = [load EXCEPT ![s] =
       IF load[s].byId
       THEN [IdleLoad EXCEPT !.pc = "selectNumber", !.billId = load[s].billId, !.byId = TRUE]
       ELSE IdleLoad]
  /\ UNCHANGED <<storeVars, viewVars, save, print, fetchVars, pageVars,
                 saved, totalsVars, menu_items, reportVars, receiptVars, settingsVars,
                 pdfVars>>

\* loadBillById after its loadBill: the bill_number for the toast
LoadSelectNumber(s) ==
  /\ load[s].pc = "selectNumber"
  /\ \E ok \in Outcomes : Outcome(ok) /\
       LET found == ok /\ load[s].billId \in DOMAIN bills
       IN event' = Ev("loadBillById", s, "bills", "select", found,
                      IF found THEN "Bill loaded" ELSE "", IF found THEN "default" ELSE "")
  /\ load' = [load EXCEPT ![s] = IdleLoad]
  /\ UNCHANGED <<storeVars, cartVars, viewVars, save, print, fetchVars, pageVars,
                 saved, totalsVars, menu_items, reportVars, receiptVars, settingsVars,
                 pdfVars>>

\* ------------------------------------------------------------------ Billing: refreshes
FetchSavedBills(s) ==
  /\ pendingSaved[s]
  /\ \E ok \in Outcomes : Outcome(ok) /\
       /\ savedBills' = [savedBills EXCEPT ![s] =
            IF ok THEN SortDesc({ b \in DOMAIN bills : bills[b].status = "draft" }) ELSE <<>>]
       /\ event' = Op("fetchSavedBills", s, "bills", "select", ok)
  /\ pendingSaved' = [pendingSaved EXCEPT ![s] = FALSE]
  /\ UNCHANGED <<storeVars, cartVars, settings, todayRevenue, save, load, print,
                 pendingRevenue, pageVars, saved, totalsVars, menu_items, reportVars,
                 receiptVars, settingsVars, pdfVars>>

FetchTodayRevenue(s) ==
  /\ pendingRevenue[s]
  /\ \E ok \in Outcomes : Outcome(ok) /\
       /\ todayRevenue' = [todayRevenue EXCEPT ![s] = IF ok THEN RevenueOf(bills) ELSE 0]
       /\ event' = Op("fetchTodayRevenue", s, "bills", "select", ok)
  /\ pendingRevenue' = [pendingRevenue EXCEPT ![s] = FALSE]
  /\ UNCHANGED <<storeVars, cartVars, settings, savedBills, save, load, print,
                 pendingSaved, pageVars, saved, totalsVars, menu_items, reportVars,
                 receiptVars, settingsVars, pdfVars>>

\* ------------------------------------------------------------------ PreviousBills
Page == "bills"

FetchBills ==
  /\ pendingBills
  /\ \E ok \in Outcomes : Outcome(ok) /\
       IF ok
       THEN /\ previousBills' = SortDesc({ b \in DOMAIN bills : bills[b].status # "draft" })
            /\ event' = Op("fetchBills", Page, "bills", "select", TRUE)
       ELSE /\ event' = Ev("fetchBills", Page, "bills", "select", FALSE, "Error", "destructive")
            /\ UNCHANGED previousBills
  /\ pendingBills' = FALSE
  /\ UNCHANGED <<storeVars, cartVars, viewVars, save, load, print, fetchVars,
                 billToDelete, del, saved, totalsVars, menu_items, reportVars, receiptVars,
                 settingsVars, pdfVars>>

\* The Billing component mounts afresh: initial state, its fetches start, and
\* with ?edit=<id> in the URL loadBillById(id) starts (editBillId = NoId: no parameter).
Mount(s, editBillId) ==
  /\ Settled(s)
  /\ clearCart(s)
  /\ savedBills' = [savedBills EXCEPT ![s] = <<>>]
  /\ todayRevenue' = [todayRevenue EXCEPT ![s] = 0]
  /\ pendingSaved' = [pendingSaved EXCEPT ![s] = TRUE]
  /\ pendingRevenue' = [pendingRevenue EXCEPT ![s] = TRUE]
  /\ load' = [load EXCEPT ![s] =
       IF editBillId = NoId THEN IdleLoad
       ELSE [pc |-> "selectItems", billId |-> editBillId, billItems |-> <<>>,
             byId |-> TRUE, fresh |-> FALSE]]
  /\ event' = Call("mount", s)
  /\ UNCHANGED <<failures, storeVars, settings, save, print, pageVars, saved, totalsVars, menu_items,
                 reportVars, receiptVars, settingsVars, pdfVars>>

\* the address bar: /billing, or /billing?edit=<any id>
Navigate(s) == \E editBillId \in 0..MaxBills : Mount(s, editBillId)

\* editBill of a row of the list: navigate(`/billing?edit=${bill.id}`)
EditBill(s) ==
  \E i \in DOMAIN previousBills :
    /\ ~pendingBills /\ del.pc = "idle"
    /\ Mount(s, previousBills[i])

ConfirmDelete ==
  \E i \in DOMAIN previousBills :
    /\ del.pc = "idle" /\ ~pendingBills
    /\ billToDelete # previousBills[i]
    /\ billToDelete' = previousBills[i]
    /\ event' = Call("confirmDelete", Page)
    /\ UNCHANGED <<failures, storeVars, cartVars, viewVars, save, load, print, fetchVars,
                   previousBills, pendingBills, del, saved, totalsVars, menu_items,
                   reportVars, receiptVars, settingsVars, pdfVars>>

DeleteBill ==
  /\ del.pc = "idle"
  /\ billToDelete # NoId
  /\ del' = [pc |-> "deleteItems"]
  /\ event' = Call("deleteBill", Page)
  /\ UNCHANGED <<failures, storeVars, cartVars, viewVars, save, load, print, fetchVars,
                 previousBills, pendingBills, billToDelete, saved, totalsVars, menu_items,
                 reportVars, receiptVars, settingsVars, pdfVars>>

DeleteBillItems ==
  /\ del.pc = "deleteItems"
  /\ \E ok \in Outcomes : Outcome(ok) /\
       /\ bill_items' = IF ok THEN bill_items \ ItemsOf(billToDelete) ELSE bill_items
       /\ saved' = IF ok THEN Forget(billToDelete) ELSE saved
       /\ load' = IF ok THEN Disturb(billToDelete) ELSE load
       /\ event' = Op("deleteBill", Page, "bill_items", "delete", ok)
  /\ del' = [pc |-> "deleteBill"]
  /\ UNCHANGED <<bills, nextBillId, nextItemId, cartVars, viewVars, save, print, fetchVars,
                 previousBills, pendingBills, billToDelete, totalsVars, menu_items,
                 reportVars, receiptVars, settingsVars, pdfVars>>

\* variant: the reference declared without ON DELETE CASCADE and not enforced
noCascade(items, b) == items

\* bill_items.bill_id REFERENCES bills(id) ON DELETE CASCADE
cascade(items, b) == { it \in items : it.bill_id # b }

DeleteBillRow ==
  /\ del.pc = "deleteBill"
  /\ \E ok \in Outcomes : Outcome(ok) /\
       IF ok
       THEN /\ bills' = [x \in DOMAIN bills \ {billToDelete} |-> bills[x]]
            /\ bill_items' = cascade(bill_items, billToDelete)
            /\ saved' = Forget(billToDelete)
            /\ load' = Disturb(billToDelete)
            /\ pendingBills' = TRUE
            /\ event' = Ev("deleteBill", Page, "bills", "delete", TRUE, "Bill deleted", "default")
       ELSE /\ event' = Ev("deleteBill", Page, "bills", "delete", FALSE, "Error", "destructive")
            /\ UNCHANGED <<bills, bill_items, saved, load, pendingBills>>
  /\ billToDelete' = NoId
  /\ del' = IdleDel
  /\ UNCHANGED <<nextBillId, nextItemId, cartVars, viewVars, save, print, fetchVars,
                 previousBills, totalsVars, menu_items, reportVars, receiptVars, settingsVars,
                 pdfVars>>

\* ------------------------------------------------------------------ specification
\* One billing terminal and the store.
Billing(s) ==
  \/ AddToCart(s) \/ UpdateQuantity(s) \/ RemoveItem(s)
  \/ SetDiscount(s) \/ SetPaymentMethod(s) \/ ClearCart(s)
  \/ \E printAfter \in BOOLEAN : SaveBill(s, printAfter)
  \/ SaveUpdateBill(s) \/ SaveDeleteItems(s) \/ SaveInsertBill(s) \/ SaveInsertItems(s)
  \/ PrintSelectBill(s) \/ PrintSelectItems(s)
  \/ LoadBill(s) \/ LoadSelectItems(s) \/ LoadSelectBill(s) \/ LoadSelectNumber(s)
  \/ FetchSavedBills(s) \/ FetchTodayRevenue(s)
  \/ Navigate(s)

Next == \E s \in Terminals : Billing(s)

Spec == Init /\ [][Next]_vars

\* The bills page beside the terminal: the list, edit and delete of PreviousBills
\* interleaved with the terminal's saves and loads of one-line carts.
BillsPage == FetchBills \/ ConfirmDelete \/ DeleteBill \/ DeleteBillItems \/ DeleteBillRow

Counter(s) ==
  \/ AddToCartWithin(s, 1, 1) \/ ClearCart(s)
  \/ \E printAfter \in BOOLEAN : SaveBill(s, printAfter)
  \/ SaveUpdateBill(s) \/ SaveDeleteItems(s) \/ SaveInsertBill(s) \/ SaveInsertItems(s)
  \/ PrintSelectBill(s) \/ PrintSelectItems(s)
  \/ LoadBill(s) \/ LoadSelectItems(s) \/ LoadSelectBill(s) \/ LoadSelectNumber(s)
  \/ FetchSavedBills(s) \/ FetchTodayRevenue(s)
  \/ EditBill(s)

NextBills == BillsPage \/ \E s \in Terminals : Counter(s)

SpecBills == Init /\ [][NextBills]_vars

\* Two terminals on one store: each opens the page, composes one-line carts, saves
\* drafts and loads them; the store operations of the two interleave freely.
Till(s) ==
  \/ AddToCartWithin(s, 1, 1)
  \/ SaveBill(s, FALSE)
  \/ SaveUpdateBill(s) \/ SaveDeleteItems(s) \/ SaveInsertBill(s) \/ SaveInsertItems(s)
  \/ LoadBill(s) \/ LoadSelectItems(s) \/ LoadSelectBill(s) \/ LoadSelectNumber(s)
  \/ FetchSavedBills(s) \/ FetchTodayRevenue(s)
  \/ Navigate(s)

NextTwo == \E s \in Sessions : Till(s)

SpecTwo == Init /\ [][NextTwo]_vars

\* ------------------------------------------------------------------ menu management
\* The management screen of the menu: an item gets another price or another name,
\* or is removed.  A terminal keeps the menu it loaded when it was opened.
Menu == "menu"

UpdateMenuItem ==
  \E m \in menu_items : \E price \in {m.price, 2500}, name \in {m.name, "Special"} :
    /\ <<price, name>> # <<m.price, m.name>>
    /\ menu_items' = (menu_items \ {m}) \cup {[m EXCEPT !.price = price, !.name = name]}
    /\ event' = Call("updateMenuItem", Menu)
    /\ UNCHANGED <<failures, storeVars, cartVars, viewVars, save, load, print, fetchVars,
                   pageVars, saved, totalsVars, reportVars, receiptVars, settingsVars,
                   pdfVars>>

DeleteMenuItem ==
  \E m \in menu_items :
    /\ menu_items' = menu_items \ {m}
    /\ event' = Call("deleteMenuItem", Menu)
    /\ UNCHANGED <<failures, storeVars, cartVars, viewVars, save, load, print, fetchVars,
                   pageVars, saved, totalsVars, reportVars, receiptVars, settingsVars,
                   pdfVars>>

\* a terminal that saves drafts of one-line carts and loads them
Drafts(s) ==
  \/ AddToCartWithin(s, 1, 1)
  \/ SaveBill(s, FALSE)
  \/ SaveUpdateBill(s) \/ SaveDeleteItems(s) \/ SaveInsertBill(s) \/ SaveInsertItems(s)
  \/ LoadBill(s) \/ LoadSelectItems(s) \/ LoadSelectBill(s)
  \/ FetchSavedBills(s) \/ FetchTodayRevenue(s)

NextMenu == UpdateMenuItem \/ DeleteMenuItem \/ \E s \in Terminals : Drafts(s)

SpecMenu == Init /\ [][NextMenu]_vars

\* a terminal whose saves may be tried again: carts of one line, up to two bills
MaxRetryBills == 2

Retry(s) ==
  \/ AddToCartWithin(s, 1, 1)
  \/ \E printAfter \in BOOLEAN : SaveBillWithin(s, printAfter, MaxRetryBills)
  \/ SaveInsertBillWithin(s, MaxRetryBills) \/ SaveInsertItems(s)
  \/ PrintSelectBill(s) \/ PrintSelectItems(s)
  \/ FetchSavedBills(s) \/ FetchTodayRevenue(s)

NextRetry == \E s \in Terminals : Retry(s)

SpecRetry == Init /\ [][NextRetry]_vars

\* ------------------------------------------------------------------ calculateTotals alone
\* The carts addToCart and updateQuantity build: distinct menu items, quantity >= 1.
CartLines ==
  { [id |-> m.id, name |-> m.name, price |-> m.price, category |-> m.category,
     quantity |-> q] : m \in menuItems, q \in 1..MaxQty }

Carts ==
  UNION { { c \in [1..n -> CartLines] : \A i, j \in 1..n : i # j => c[i].id # c[j].id }
          : n \in 0..MaxCart }

TaxPercentages  == {0, 5, 18}               \* settings.tax_percentage
\* Number(e.target.value) of the discount input: -5.00, 0, 1.00, 1000.00
DiscountsTyped  == {-50000, 0, 10000, 10000000}

InitTotals ==
  /\ InitStore /\ InitBilling /\ InitPage /\ InitObserved /\ InitMenu /\ InitReports
  /\ InitReceipt /\ InitSettings /\ InitPdf
  /\ totalsArgs \in [cart : Carts, tax_percentage : TaxPercentages, discount : DiscountsTyped]
  /\ totalsResult = NoTotals

\* a render of Billing: const { subtotal, taxAmount, total } = calculateTotals()
Render ==
  /\ ~totalsResult.applied
  /\ totalsResult' =
       LET t == calculateTotals(totalsArgs.cart, totalsArgs.tax_percentage, totalsArgs.discount)
       IN [applied |-> TRUE, subtotal |-> t.subtotal, taxAmount |-> t.taxAmount,
           total |-> t.total]
  /\ UNCHANGED <<storeVars, cartVars, viewVars, save, load, print, fetchVars, pageVars,
                 event, failures, saved, totalsArgs, menu_items, reportVars, receiptVars,
                 settingsVars, pdfVars>>

NextTotals == Render

SpecTotals == InitTotals /\ [][NextTotals]_vars

\* ------------------------------------------------------------------ Reports
Reports == "reports"

MaxReportBills == 2

\* the month names of format(date, "MMM dd")
MMM == <<"Jan", "Feb", "Mar", "Apr", "May", "Jun", "Jul", "Aug", "Sep", "Oct", "Nov", "Dec">>

\* format(new Date(bill.date), "MMM dd"): the month name and the day of the month
formatMMMdd(d) == <<MMM[d[2]], d[3]>>

\* Number(x.toFixed(2))
toFixed2(x) == decimal2(x)

\* method.charAt(0).toUpperCase() + method.slice(1)
capitalize(method) ==
  CASE method = "cash" -> "Cash"
    [] method = "card" -> "Card"
    [] method = "upi"  -> "Upi"
    [] OTHER           -> method

RECURSIVE OrderByDate(_, _)
\* .order("date"): the ids of S, earliest date first, rows of one instant in id order
OrderByDate(rows, S) ==
  IF S = {} THEN <<>>
  ELSE LET m == CHOOSE x \in S : \A y \in S :
                  IF rows[x].date = rows[y].date THEN x <= y
                  ELSE lte(rows[x].date, rows[y].date)
       IN <<m>> \o OrderByDate(rows, S \ {m})

\* variant: the query without .neq("status", "draft")
selectBillsWithDrafts(rows, start, end) ==
  OrderByDate(rows, { b \in DOMAIN rows :
                        gte(rows[b].date, start) /\ lte(rows[b].date, end) })

\* .neq("status", "draft").gte("date", startDate.toISOString())
\*   .lte("date", endDate.toISOString()).order("date")
selectBills(rows, start, end) ==
  OrderByDate(rows, { b \in DOMAIN rows :
                        /\ rows[b].status # "draft"
                        /\ gte(rows[b].date, start) /\ lte(rows[b].date, end) })

\* variant: `if (!bills)`, and an array is never falsy
noBillsFalsy(ids) == FALSE

\* !bills || bills.length === 0
noBills(ids) == Len(ids) = 0

\* if (!groups[key]) groups[key] = {0, 0}; groups[key].amount += amount;
\* groups[key].count += 1; Object.entries lists the keys in the order they were added
addToGroup(groups, key, amount) ==
  IF \E i \in DOMAIN groups : groups[i].key = key
  THEN [i \in DOMAIN groups |->
          IF groups[i].key = key
          THEN [groups[i] EXCEPT !.amount = @ + amount, !.count = @ + 1]
          ELSE groups[i]]
  ELSE Append(groups, [key |-> key, amount |-> amount, count |-> 1])

\* what fetchRevenueData sets from the rows the query returned
revenueReport(rows, ids) ==
  IF noBills(ids)
  THEN [revenueData |-> <<>>, paymentData |-> <<>>, totalRevenue |-> 0,
        totalBills |-> 0, avgBillValue |-> Zero]
  ELSE LET AddTotal(sum, b)   == sum + rows[b].total
           ByDate(groups, b)  == addToGroup(groups, formatMMMdd(rows[b].date), rows[b].total)
           ByMethod(groups, b) ==
             addToGroup(groups,
                        IF rows[b].payment_method = null THEN "Not Specified"
                        ELSE rows[b].payment_method,
                        rows[b].total)
           total          == Reduce(AddTotal, ids, 0)
           groupedByDate  == Reduce(ByDate, ids, <<>>)
           paymentMethods == Reduce(ByMethod, ids, <<>>)
       IN [revenueData |->
             [i \in DOMAIN groupedByDate |->
                [date |-> groupedByDate[i].key,
                 revenue |-> toFixed2(groupedByDate[i].amount),
                 bills |-> groupedByDate[i].count]],
           paymentData |->
             [i \in DOMAIN paymentMethods |->
                [method |-> capitalize(paymentMethods[i].key),
                 amount |-> toFixed2(paymentMethods[i].amount),
                 count |-> paymentMethods[i].count]],
           totalRevenue |-> total,
           totalBills |-> Len(ids),
           avgBillValue |-> Quotient(total, Len(ids))]

\* the response to the query of fetchRevenueData arrives
FetchRevenueData ==
  \E q \in pendingReport :
    /\ \E ok \in Outcomes : Outcome(ok) /\
         IF ok
         THEN LET r == revenueReport(bills, selectBills(bills, q.startDate, q.endDate))
              IN /\ revenueData' = r.revenueData
                 /\ paymentData' = r.paymentData
                 /\ totalRevenue' = r.totalRevenue
                 /\ totalBills' = r.totalBills
                 /\ avgBillValue' = r.avgBillValue
                 /\ event' = Op("fetchRevenueData", Reports, "bills", "select", TRUE)
         ELSE /\ event' = Ev("fetchRevenueData", Reports, "bills", "select", FALSE,
                             "Error", "destructive")
              /\ UNCHANGED <<revenueData, paymentData, totalRevenue, totalBills,
                             avgBillValue>>
    /\ pendingReport' = pendingReport \ {q}
    /\ UNCHANGED <<storeVars, cartVars, viewVars, save, load, print, fetchVars, pageVars,
                   saved, totalsVars, menu_items, receiptVars, settingsVars,
                   startDate, endDate, selectedPeriod, pdfVars>>

\* the days of the calendar popovers: a pick is the day's midnight
CalendarDays == { <<2025, 1, 1, 0>>, <<2025, 1, 2, 0>>, <<2025, 2, 1, 0>>, <<2026, 1, 1, 0>> }

\* onSelect of the start date calendar; the effect on [startDate, endDate] runs
\* fetchRevenueData with the new range.  A day is picked while fewer than maxInFlight
\* fetches are on their way.
SetStartDateWithin(maxInFlight) ==
  \E date \in CalendarDays :
    /\ Cardinality(pendingReport) < maxInFlight
    /\ startDate' = date
    /\ selectedPeriod' = "custom"
    /\ pendingReport' = pendingReport \cup {ReportQuery(date, endDate)}
    /\ event' = Call("setStartDate", Reports)
    /\ UNCHANGED <<failures, storeVars, cartVars, viewVars, save, load, print, fetchVars,
                   pageVars, saved, totalsVars, menu_items, endDate, revenueData,
                   paymentData, totalRevenue, totalBills, avgBillValue, receiptVars,
                   settingsVars, pdfVars>>

SetStartDate == SetStartDateWithin(1)

\* onSelect of the end date calendar
SetEndDate ==
  \E date \in CalendarDays :
    /\ pendingReport = {}
    /\ endDate' = date
    /\ selectedPeriod' = "custom"
    /\ pendingReport' = {ReportQuery(startDate, date)}
    /\ event' = Call("setEndDate", Reports)
    /\ UNCHANGED <<failures, storeVars, cartVars, viewVars, save, load, print, fetchVars,
                   pageVars, saved, totalsVars, menu_items, startDate, revenueData,
                   paymentData, totalRevenue, totalBills, avgBillValue, receiptVars,
                   settingsVars, pdfVars>>

\* --- date-fns
isLeapYear(y) == (y % 4 = 0 /\ y % 100 # 0) \/ y % 400 = 0
getDaysInMonth(y, m) ==
  IF m = 2 THEN (IF isLeapYear(y) THEN 29 ELSE 28)
  ELSE IF m \in {4, 6, 9, 11} THEN 30 ELSE 31

\* Date.prototype.getDay: 0 is Sunday
getDay(d) ==
  LET t == <<0, 3, 2, 5, 0, 3, 5, 1, 4, 6, 2, 4>>
      y == IF d[2] < 3 THEN d[1] - 1 ELSE d[1]
  IN (y + (y \div 4) - (y \div 100) + (y \div 400) + t[d[2]] + d[3]) % 7

RECURSIVE addDays(_, _)
\* the same hour n days later (earlier when n < 0)
addDays(d, n) ==
  IF n = 0 THEN d
  ELSE IF n > 0
       THEN addDays(IF d[3] < getDaysInMonth(d[1], d[2]) THEN <<d[1], d[2], d[3] + 1, d[4]>>
                    ELSE IF d[2] < 12 THEN <<d[1], d[2] + 1, 1, d[4]>>
                    ELSE <<d[1] + 1, 1, 1, d[4]>>,
                    n - 1)
       ELSE addDays(IF d[3] > 1 THEN <<d[1], d[2], d[3] - 1, d[4]>>
                    ELSE IF d[2] > 1
                         THEN <<d[1], d[2] - 1, getDaysInMonth(d[1], d[2] - 1), d[4]>>
                         ELSE <<d[1] - 1, 12, 31, d[4]>>,
                    n + 1)

\* the last instant of the day of d
endOfDay(d) == <<d[1], d[2], d[3], 23>>

\* startOfWeek(d, { weekStartsOn: 1 }) and endOfWeek(d, { weekStartsOn: 1 })
startOfWeek(d) ==
  LET day  == getDay(d)
      diff == (IF day < 1 THEN 7 ELSE 0) + day - 1
  IN startOfDay(addDays(d, -diff))
endOfWeek(d) ==
  LET day  == getDay(d)
      diff == (IF day < 1 THEN -7 ELSE 0) + 6 - (day - 1)
  IN endOfDay(addDays(d, diff))

endOfMonth(d)  == <<d[1], d[2], getDaysInMonth(d[1], d[2]), 23>>
startOfYear(d) == <<d[1], 1, 1, 0>>
endOfYear(d)   == <<d[1], 12, 31, 23>>

MaxInFlight == 2

\* setPeriod(period); the effect on [startDate, endDate] runs fetchRevenueData with
\* the new range, whatever fetches are still on their way
SetPeriod(period) ==
  LET start == CASE period = "today" -> startOfDay(now)
                 [] period = "week"  -> startOfWeek(now)
                 [] period = "month" -> startOfMonth(now)
                 [] period = "year"  -> startOfYear(now)
      end   == CASE period = "today" -> now
                 [] period = "week"  -> endOfWeek(now)
                 [] period = "month" -> endOfMonth(now)
                 [] period = "year"  -> endOfYear(now)
  IN /\ Cardinality(pendingReport) < MaxInFlight
     /\ selectedPeriod' = period
     /\ startDate' = start
     /\ endDate' = end
     /\ pendingReport' = pendingReport \cup {ReportQuery(start, end)}
     /\ event' = Call("setPeriod", Reports)
     /\ UNCHANGED <<failures, storeVars, cartVars, viewVars, save, load, print, fetchVars,
                    pageVars, saved, totalsVars, menu_items, revenueData, paymentData,
                    totalRevenue, totalBills, avgBillValue, receiptVars, settingsVars,
                    pdfVars>>

\* The bills a shop has on file when the report is opened: drafts and printed bills
\* of one-line carts, written by saveBill at some instant up to now, ids in the
\* order of their dates.
BillDates == CalendarDays \cup { <<2025, 1, 1, 12>> }

ReportCarts == { c \in Carts : Len(c) = 1 /\ c[1].quantity = 1 }

BillsOnFileUpTo(maxBills) ==
  UNION { { r \in [1..n -> { Row(billData(c, DefaultSettings.tax_percentage, 0, pm, printAfter),
                                 0, d)
                             : c \in ReportCarts, pm \in {"cash"},
                               printAfter \in BOOLEAN, d \in BillDates }
                           \cup
                           { Row(billData(c, DefaultSettings.tax_percentage, 0, "", TRUE),
                                 0, d)
                             : c \in ReportCarts, d \in BillDates }] :
              \A i, j \in 1..n : i < j => lte(r[i].date, r[j].date) }
          : n \in 0..maxBills }

BillsOnFile == BillsOnFileUpTo(MaxReportBills)

InitReportsStoreOf(filed) ==
  /\ \E r \in filed :
       /\ bills = [b \in DOMAIN r |-> [r[b] EXCEPT !.bill_number = b]]
       /\ nextBillId = Len(r) + 1
  /\ bill_items = {}
  /\ nextItemId = 1

InitReportsStore == InitReportsStoreOf(BillsOnFile)

InitFiledOf(filed) ==
  /\ InitReportsStoreOf(filed) /\ InitBilling /\ InitPage /\ InitObserved /\ InitMenu
  /\ InitReports /\ InitReceipt /\ InitSettings /\ InitPdf
  /\ totalsArgs = [cart |-> <<>>, tax_percentage |-> 0, discount |-> 0]
  /\ totalsResult = NoTotals

InitFiled == InitFiledOf(BillsOnFile)

\* the Reports page, a terminal and the bills page reading the bills on file
NextReports ==
  \/ FetchRevenueData \/ SetStartDate \/ SetEndDate
  \/ FetchBills
  \/ \E s \in Terminals : FetchTodayRevenue(s)

SpecReports == InitFiled /\ [][NextReports]_vars

\* the Reports page with its range changed while fetches are on their way
NextRace ==
  \/ FetchRevenueData
  \/ SetStartDateWithin(MaxInFlight)
  \/ \E period \in {"today", "week", "month", "year"} : SetPeriod(period)

MaxRaceBills == 1

InitRace == InitFiledOf(BillsOnFileUpTo(MaxRaceBills))

SpecRace == InitRace /\ [][NextRace]_vars

\* ------------------------------------------------------------------ settings
SettingsScreen == "settings"

\* Billing.fetchSettings: the response arrives; if (data) setSettings(data)
FetchSettings(s) ==
  /\ pendingSettings[s]
  /\ \E ok \in Outcomes : Outcome(ok) /\
       /\ settings' = [settings EXCEPT ![s] = IF ok THEN settingsRow ELSE @]
       /\ event' = Op("fetchSettings", s, "settings", "select", ok)
  /\ pendingSettings' = [pendingSettings EXCEPT ![s] = FALSE]
  /\ UNCHANGED <<storeVars, cartVars, savedBills, todayRevenue, save, load, print,
                 fetchVars, pageVars, saved, totalsVars, menu_items, reportVars,
                 receiptVars, settingsRow, pdfVars>>

\* SettingsPage.handleSubmit with another tax percentage in the form
HandleSubmit ==
  \E tax_percentage \in TaxPercentages \ {settingsRow.tax_percentage} :
    /\ \E ok \in Outcomes : Outcome(ok) /\
         IF ok
         THEN /\ settingsRow' = [settingsRow EXCEPT !.tax_percentage = tax_percentage]
              /\ event' = Ev("handleSubmit", SettingsScreen, "settings", "update", TRUE,
                             "Success", "default")
         ELSE /\ event' = Ev("handleSubmit", SettingsScreen, "settings", "update", FALSE,
                             "Error", "destructive")
              /\ UNCHANGED settingsRow
    /\ UNCHANGED <<storeVars, cartVars, viewVars, save, load, print, fetchVars, pageVars,
                   saved, totalsVars, menu_items, reportVars, receiptVars, pendingSettings,
                   pdfVars>>

\* Billing as mounted: fetchSettings is on its way
InitUnfetched ==
  /\ InitStore /\ InitBilling /\ InitPage /\ InitObserved /\ InitMenu /\ InitReports
  /\ InitReceipt /\ InitPdf
  /\ settingsRow = DefaultSettings
  /\ pendingSettings = [s \in Sessions |-> s \in Terminals]
  /\ totalsArgs = [cart |-> <<>>, tax_percentage |-> 0, discount |-> 0]
  /\ totalsResult = NoTotals

\* a terminal that saves new bills of one-line carts while the settings are edited
Taxed(s) ==
  \/ FetchSettings(s)
  \/ AddToCartWithin(s, 1, 1)
  \/ SaveBill(s, FALSE)
  \/ SaveInsertBill(s) \/ SaveInsertItems(s)
  \/ FetchSavedBills(s) \/ FetchTodayRevenue(s)

NextSettings == HandleSubmit \/ \E s \in Terminals : Taxed(s)

SpecSettings == InitUnfetched /\ [][NextSettings]_vars

\* ------------------------------------------------------------------ receipt
\* A string is the sequence of its characters.
Digit == <<"0", "1", "2", "3", "4", "5", "6", "7", "8", "9">>

RECURSIVE toString(_)
\* Number.prototype.toString of an integer n >= 0
toString(n) ==
  IF n < 10 THEN <<Digit[n + 1]>> ELSE toString(n \div 10) \o <<Digit[(n % 10) + 1]>>

\* Number(x).toFixed(2) of an amount
toFixed(x) ==
  LET c == decimal2(x) \div 100
      a == IF c < 0 THEN -c ELSE c
  IN (IF c < 0 THEN <<"-">> ELSE <<>>)
       \o toString(a \div 100) \o <<".", Digit[((a % 100) \div 10) + 1], Digit[(a % 10) + 1]>>

\* ch.repeat(n)
repeat(ch, n) == [i \in 1..n |-> ch]

\* String.prototype.padEnd / padStart with spaces
padEnd(text, n)   == IF Len(text) >= n THEN text ELSE text \o repeat(" ", n - Len(text))
padStart(text, n) == IF Len(text) >= n THEN text ELSE repeat(" ", n - Len(text)) \o text

\* String.prototype.substring(from, to)
substring(text, from, to) == SubSeq(text, from + 1, IF to > Len(text) THEN Len(text) ELSE to)

\* center(text, width = 32)
center(text) ==
  LET padding == Max(0, (32 - Len(text)) \div 2)
  IN repeat(" ", padding) \o text

\* line(left, right, width = 32)
line(left, right) ==
  LET space == 32 - Len(left) - Len(right)
  IN left \o repeat(" ", Max(1, space)) \o right

divider == repeat("-", 32)

columnHeader == <<"I", "t", "e", "m", " ", " ", " ", " ", " ", " ", " ", " ", " ", " ", " ", " ", " ", "Q", "t", "y", " ", "P", "r", "i", "c", "e", " ", "T", "o", "t", "a", "l">>

\* toLocaleDateString() and toLocaleTimeString() of an instant, as en-US writes them
toLocaleDateString(d) == toString(d[2]) \o <<"/">> \o toString(d[3]) \o <<"/">> \o toString(d[1])
toLocaleTimeString(d) ==
  toString(IF d[4] % 12 = 0 THEN 12 ELSE d[4] % 12) \o <<":", "0", "0", ":", "0", "0">>
    \o (IF d[4] < 12 THEN <<" ", "A", "M">> ELSE <<" ", "P", "M">>)

\* variant: the name cut to 16 characters before the dots are appended
itemNameCutAt16(name) ==
  IF Len(name) > 16 THEN substring(name, 0, 16) \o <<".", ".", ".">> ELSE padEnd(name, 16)

\* the item-name column of an item row
itemName(name) ==
  IF Len(name) > 16 THEN substring(name, 0, 13) \o <<".", ".", ".">> ELSE padEnd(name, 16)

\* `${name} ${qty} ${price} ${total}`
itemRow(item) ==
  itemName(item.item_name_snapshot) \o <<" ">>
    \o padStart(toString(item.quantity), 3) \o <<" ">>
    \o padStart(toFixed(item.price_snapshot), 5) \o <<" ">>
    \o padStart(toFixed(item.line_total), 6)

\* variant: a Discount line for every discount other than 0
hasDiscountNonZero(bill) == bill.discount # 0

\* bill.discount > 0
hasDiscount(bill) == bill.discount > 0

Rs(x) == <<"R", "s", ".">> \o toFixed(x)
\* the rupee sign and the amount
Rupee(x) == <<"INR">> \o toFixed(x)

TextLine(kind, text) == [kind |-> kind, text |-> text]

\* the text receipt of printBill, a line per element; kind names what the line is
receiptText(bill, items, shop) ==
  <<TextLine("header", center(shop.shop_name))>>
  \o (IF shop.shop_phone # <<>>
      THEN <<TextLine("header", center(<<"P", "h", ":", " ">> \o shop.shop_phone))>> ELSE <<>>)
  \o <<TextLine("divider", divider),
       TextLine("bill", <<"B", "i", "l", "l", " ", "#", ":", " ">> \o toString(bill.bill_number)),
       TextLine("date", <<"D", "a", "t", "e", ":", " ">> \o toLocaleDateString(bill.date) \o <<" ">>
                          \o toLocaleTimeString(bill.date))>>
  \o (IF bill.payment_method # <<>>
      THEN <<TextLine("payment", <<"P", "a", "y", "m", "e", "n", "t", ":", " ">> \o bill.payment_method)>> ELSE <<>>)
  \o <<TextLine("divider", divider),
       TextLine("columns", columnHeader),
       TextLine("divider", divider)>>
  \o [i \in DOMAIN items |-> TextLine("item", itemRow(items[i]))]
  \o <<TextLine("divider", divider),
       TextLine("subtotal", line(<<"S", "u", "b", "t", "o", "t", "a", "l", ":">>, Rs(bill.subtotal))),
       TextLine("tax", line(<<"T", "a", "x", " ", "(">> \o toString(shop.tax_percentage) \o <<"%", ")", ":">>,
                            Rs(bill.tax_amount)))>>
  \o (IF hasDiscount(bill)
      THEN <<TextLine("discount", line(<<"D", "i", "s", "c", "o", "u", "n", "t", ":">>, Rs(bill.discount)))>> ELSE <<>>)
  \o <<TextLine("divider", divider),
       TextLine("total", line(<<"T", "O", "T", "A", "L", ":">>, Rs(bill.total))),
       TextLine("divider", divider),
       TextLine("footer", center(<<"T", "h", "a", "n", "k", " ", "y", "o", "u", "!">>)),
       TextLine("footer", center(<<"V", "i", "s", "i", "t", " ", "a", "g", "a", "i", "n", "!">>))>>

\* the HTML receipt of the bills page: an element per line, kind names the element
receiptHtml(bill, items, shop) ==
  <<TextLine("header", shop.shop_name)>>
  \o (IF shop.shop_phone # <<>>
      THEN <<TextLine("header", <<"P", "h", ":", " ">> \o shop.shop_phone)>> ELSE <<>>)
  \o <<TextLine("divider", <<>>),
       TextLine("bill", <<"B", "i", "l", "l", " ", "#", ":", " ">> \o toString(bill.bill_number)),
       TextLine("date", <<"D", "a", "t", "e", ":", " ">> \o toLocaleDateString(bill.date) \o <<",", " ">>
                          \o toLocaleTimeString(bill.date))>>
  \o (IF bill.payment_method # <<>>
      THEN <<TextLine("payment", <<"P", "a", "y", "m", "e", "n", "t", ":", " ">> \o bill.payment_method)>> ELSE <<>>)
  \o <<TextLine("divider", <<>>),
       TextLine("columns", <<"I", "t", "e", "m", "Q", "t", "y", "P", "r", "i", "c", "e", "T", "o", "t", "a", "l">>)>>
  \o [i \in DOMAIN items |->
        TextLine("item", items[i].item_name_snapshot \o toString(items[i].quantity)
                           \o toFixed(items[i].price_snapshot)
                           \o toFixed(items[i].line_total))]
  \o <<TextLine("divider", <<>>),
       TextLine("subtotal", <<"S", "u", "b", "t", "o", "t", "a", "l", ":">> \o Rupee(bill.subtotal)),
       TextLine("tax", <<"T", "a", "x", " ", "(">> \o toString(shop.tax_percentage) \o <<"%", ")", ":">>
                         \o Rupee(bill.tax_amount))>>
  \o (IF hasDiscount(bill)
      THEN <<TextLine("discount", <<"D", "i", "s", "c", "o", "u", "n", "t", ":">> \o Rupee(bill.discount))>> ELSE <<>>)
  \o <<TextLine("total", <<"T", "O", "T", "A", "L", ":">> \o Rupee(bill.total)),
       TextLine("divider", <<>>),
       TextLine("footer", <<"T", "h", "a", "n", "k", " ", "y", "o", "u", "!">>),
       TextLine("footer", <<"V", "i", "s", "i", "t", " ", "a", "g", "a", "i", "n", "!">>)>>

\* printBill writes the text receipt into the print window
PrintText ==
  /\ receipt.path = ""
  /\ receipt' = [path |-> "text",
                 lines |-> receiptText(receiptArgs.bill, receiptArgs.items,
                                       receiptArgs.settings)]
  /\ UNCHANGED <<storeVars, cartVars, viewVars, save, load, print, fetchVars, pageVars,
                 event, failures, saved, totalsVars, menu_items, reportVars, receiptArgs,
                 settingsVars, pdfVars>>

\* printBill of the bills page writes the HTML receipt into the print window
PrintHtml ==
  /\ receipt.path = ""
  /\ receipt' = [path |-> "html",
                 lines |-> receiptHtml(receiptArgs.bill, receiptArgs.items,
                                       receiptArgs.settings)]
  /\ UNCHANGED <<storeVars, cartVars, viewVars, save, load, print, fetchVars, pageVars,
                 event, failures, saved, totalsVars, menu_items, reportVars, receiptArgs,
                 settingsVars, pdfVars>>

\* The bills a receipt is printed of: one or two lines, names of 3, 16, 17 and 20
\* characters, quantity up to 999, unit price up to 99.99, line total up to 999.99.
ItemNames == { <<"T", "e", "a">>,
               <<"M", "a", "s", "a", "l", "a", " ", "D", "o", "s", "a", " ", "R", "o", "l", "l">>,
               <<"P", "a", "n", "e", "e", "r", " ", "T", "i", "k", "k", "a", " ", "R", "o", "l", "l">>,
               <<"C", "h", "i", "c", "k", "e", "n", " ", "B", "i", "r", "y", "a", "n", "i", " ", "F", "u", "l", "l">> }

ReceiptLines ==
  { l \in [id : {1}, name : ItemNames, price : {1000, 999900}, category : {"Food"},
           quantity : {1, 999}] : l.price * l.quantity <= 9999900 }

MaxReceiptItems == 2

ReceiptCarts ==
  UNION { { c \in [1..n -> ReceiptLines] : \A i, j \in 1..n : i # j => c[i].name # c[j].name }
          : n \in 1..MaxReceiptItems }

ShopNames == { <<"M", "y", " ", "S", "h", "o", "p">>,
               <<"S", "r", "i", " ", "L", "a", "k", "s", "h", "m", "i", " ", "T", "i", "f", "f", "i", "n", " ", "a", "n", "d", " ", "T", "e", "a", " ", "S", "t", "a", "l", "l">> }
ShopPhones == { <<>>, <<"9", "8", "7", "6", "5">> }

cashChars == <<"c", "a", "s", "h">>

\* the row and the line items saveBill writes of cart c, and the settings row; a
\* payment method or phone that is null is the empty string: both are falsy
ReceiptOf(c, d, pm, shop_name, shop_phone) ==
  [bill |-> [Row(billData(c, DefaultSettings.tax_percentage, d, "cash", TRUE), 1, now)
               EXCEPT !.payment_method = pm],
   items |-> SortById(ItemRows(c, 1, 1)),
   settings |-> [tax_percentage |-> DefaultSettings.tax_percentage,
                 shop_name |-> shop_name, shop_phone |-> shop_phone]]

InitReceiptArgs ==
  /\ receiptArgs \in { ReceiptOf(c, d, pm, n, ph) :
                         c \in ReceiptCarts, d \in {-10000, 0, 10000},
                         pm \in {<<>>, cashChars}, n \in ShopNames, ph \in ShopPhones }
  /\ receipt = NoReceipt

InitPrinting ==
  /\ InitStore /\ InitBilling /\ InitPage /\ InitObserved /\ InitMenu /\ InitReports
  /\ InitReceiptArgs /\ InitSettings /\ InitPdf
  /\ totalsArgs = [cart |-> <<>>, tax_percentage |-> 0, discount |-> 0]
  /\ totalsResult = NoTotals

NextReceipt == PrintText \/ PrintHtml

SpecReceipt == InitPrinting /\ [][NextReceipt]_vars

\* ------------------------------------------------------------------ Reports: downloadPDF
\* format(date, "PPP"), "dd/MM/yyyy HH:mm" and "yyyy-MM-dd" of an instant
formatPPP(d) == <<MMM[d[2]], d[3], d[1]>>
\* the number n >= 0 written with at least len digits
addLeadingZeros(n, len) ==
  LET text == toString(n)
  IN IF Len(text) >= len THEN text ELSE repeat("0", len - Len(text)) \o text
formatDateTime(d) ==
  addLeadingZeros(d[3], 2) \o <<"/">> \o addLeadingZeros(d[2], 2)
    \o <<"/">> \o toString(d[1]) \o <<" ">> \o addLeadingZeros(d[4], 2)
    \o <<":", "0", "0">>
formatISODate(d) ==
  toString(d[1]) \o <<"-">> \o addLeadingZeros(d[2], 2) \o <<"-">>
    \o addLeadingZeros(d[3], 2)

\* (n / d).toFixed(2) of an average kept as the quotient n / d
toFixedOfQuotient(q) ==
  LET a == IF q.num < 0 THEN -q.num ELSE q.num
      r == ((a + 50 * q.den) \div (100 * q.den)) * 100
  IN toFixed(IF q.num < 0 THEN -r ELSE r)

\* a row of tableData
tableRow(bill) ==
  <<bill.bill_number, formatDateTime(bill.date),
    IF bill.payment_method = null THEN "N/A" ELSE bill.payment_method,
    Rupee(bill.subtotal), Rupee(bill.tax_amount), Rupee(bill.discount),
    Rupee(bill.total)>>

\* the document downloadPDF saves: the summary is written from the state the click's
\* render closed over, the table from the rows the query returned
pdfDocument(closure, rows, ids) ==
  [saved |-> TRUE,
   file |-> <<formatISODate(closure.startDate), formatISODate(closure.endDate)>>,
   period |-> <<formatPPP(closure.startDate), formatPPP(closure.endDate)>>,
   totalBills |-> Len(ids),
   totalRevenue |-> Rupee(closure.totalRevenue),
   avgBillValue |-> <<"INR">> \o toFixedOfQuotient(closure.avgBillValue),
   table |-> [i \in DOMAIN ids |-> tableRow(rows[ids[i]])],
   bills |-> [i \in DOMAIN ids |-> rows[ids[i]]],
   fetching |-> closure.fetching]

\* a click on Download PDF: the query is sent.  `fetching` notes whether a
\* fetchRevenueData was on its way at the click.
DownloadPDF ==
  /\ ~pendingPdf.running
  /\ pendingPdf' = [running |-> TRUE, startDate |-> startDate, endDate |-> endDate,
                    totalRevenue |-> totalRevenue, avgBillValue |-> avgBillValue,
                    fetching |-> pendingReport # {}]
  /\ event' = Call("downloadPDF", Reports)
  /\ UNCHANGED <<failures, storeVars, cartVars, viewVars, save, load, print, fetchVars,
                 pageVars, saved, totalsVars, menu_items, reportVars, receiptVars,
                 settingsVars, pdf>>

\* the response to the query of downloadPDF arrives
DownloadPDFSelect ==
  /\ pendingPdf.running
  /\ \E ok \in Outcomes : Outcome(ok) /\
       LET ids == selectBills(bills, pendingPdf.startDate, pendingPdf.endDate)
       IN IF ~ok \/ noBills(ids)
          THEN /\ event' = Ev("downloadPDF", Reports, "bills", "select", ok,
                              "No data", "destructive")
               /\ UNCHANGED pdf
          ELSE /\ pdf' = pdfDocument(pendingPdf, bills, ids)
               /\ event' = Ev("downloadPDF", Reports, "bills", "select", TRUE,
                              "Success", "")
  /\ pendingPdf' = NoPdfRequest
  /\ UNCHANGED <<storeVars, cartVars, viewVars, save, load, print, fetchVars,
                 pageVars, saved, totalsVars, menu_items, reportVars, receiptVars,
                 settingsVars>>

\* the Reports page with its PDF download, beside the bills page deleting bills
NextPdf ==
  \/ FetchRevenueData \/ DownloadPDF \/ DownloadPDFSelect
  \/ BillsPage

SpecPdf == InitFiled /\ [][NextPdf]_vars

\* ------------------------------------------------------------------ properties
\* the step is the line-item insert of s's saveBill going through: the save succeeded
SavedOk(s) ==
  /\ event'.fn = "saveBill" /\ event'.who = s
  /\ event'.table = "bill_items" /\ event'.op = "insert" /\ event'.ok

\* the rows of bill b after the step, as cart lines
LinesAfter(b) == cartOfItems(SortById({ it \in bill_items' : it.bill_id = b }))

\* C1: after a successful saveBill(printAfter) the persisted bill row has status
\* 'printed' when printAfter is true and 'saved' when it is false, never 'draft'.
C1_StatusAfterSave ==
  [][\A s \in Sessions :
       SavedOk(s) =>
         /\ save[s].billId \in DOMAIN bills'
         /\ bills'[save[s].billId].status =
              IF save[s].printAfter THEN "printed" ELSE "saved"]_vars

\* C2: saveBill invoked with an empty cart issues no store operation, raises the
\* "Cart is empty" notification and leaves the store, the cart, the discount, the
\* payment method and the bound bill id as they were, whatever the bound bill id.
C2_EmptyCartSave ==
  [][\A s \in Sessions :
       (event'.fn = "saveBill" /\ event'.who = s /\ event'.op = "" /\ cart[s] = <<>>) =>
         /\ event'.toast = "Cart is empty" /\ event'.variant = "destructive"
         /\ save'[s].pc = "idle"
         /\ UNCHANGED <<storeVars, cartVars, failures>>]_vars

\* an empty-cart save was refused while a bill id was bound and a discount was set
C2_Witness ==
  \E s \in Sessions :
    /\ event.fn = "saveBill" /\ event.who = s /\ event.toast = "Cart is empty"
    /\ cart[s] = <<>> /\ currentBillId[s] # NoId /\ discount[s] # 0

RECURSIVE SumOver(_, _)
\* the sum of price * quantity over the lines of c at the indices I
SumOver(c, I) ==
  IF I = {} THEN 0
  ELSE LET i == CHOOSE x \in I : TRUE
       IN c[i].price * c[i].quantity + SumOver(c, I \ {i})

\* C3: calculateTotals returns subtotal = sum of price*quantity, taxAmount =
\* subtotal*t/100 and total = subtotal + taxAmount - d, for every cart, tax t >= 0
\* and discount d, negative or larger than the subtotal included: nothing is clamped.
C3_Totals ==
  totalsResult.applied =>
    LET a == totalsArgs
        r == totalsResult
    IN /\ r.subtotal = SumOver(a.cart, DOMAIN a.cart)
       /\ r.taxAmount * 100 = r.subtotal * a.tax_percentage
       /\ r.total = r.subtotal + r.taxAmount - a.discount

\* a two-line cart with tax and a discount larger than subtotal + tax: a negative total
C3_Witness ==
  /\ totalsResult.applied /\ Len(totalsArgs.cart) = 2
  /\ totalsArgs.tax_percentage > 0 /\ totalsResult.taxAmount > 0
  /\ totalsArgs.discount > totalsResult.subtotal /\ totalsResult.total < 0

\* C4: a successful saveBill with a bill id bound leaves the number of bill rows
\* unchanged, writes the newly computed totals into the bound row, and leaves as the
\* bill's line-item snapshots exactly the cart lines of this save.
C4_UpdateReplaces ==
  [][\A s \in Sessions :
       (event'.fn = "saveBill" /\ event'.who = s /\ save[s].currentBillId # NoId) =>
         /\ Cardinality(DOMAIN bills') = Cardinality(DOMAIN bills)
         /\ SavedOk(s) =>
              LET b == save[s].currentBillId
                  t == calculateTotals(save[s].cart, settings[s].tax_percentage,
                                       save[s].discount)
              IN /\ b \in DOMAIN bills'
                 /\ bills'[b].subtotal = decimal2(t.subtotal)
                 /\ bills'[b].tax_amount = decimal2(t.taxAmount)
                 /\ bills'[b].total = decimal2(t.total)
                 /\ LineBag(LinesAfter(b)) = LineBag(save[s].cart)]_vars

\* C5: loadBill of a bill after a successful saveBill of it yields a cart with the
\* saved names, prices and quantities, the saved discount and payment method, every
\* line in category 'Uncategorized', and binds the bill id.
C5_RoundTrip ==
  [][\A s \in Sessions :
       (/\ event'.fn = "loadBill" /\ event'.who = s
        /\ event'.table = "bills" /\ event'.ok
        /\ load[s].fresh /\ load[s].billId \in DOMAIN saved) =>
         LET b == load[s].billId
         IN /\ LineBag(cart'[s]) = saved[b].lines
            /\ discount'[s] = saved[b].discount
            /\ paymentMethod'[s] = saved[b].paymentMethod
            /\ \A i \in DOMAIN cart'[s] : cart'[s][i].category = "Uncategorized"
            /\ currentBillId'[s] = b]_vars

\* the step is the delete of the bill row by deleteBill
RowDelete == event'.fn = "deleteBill" /\ event'.table = "bills" /\ event'.op = "delete"

\* C6: deleteBill issues the delete of the bill's line items before the delete of
\* the bill row; after a successful deleteBill neither the row nor a line item that
\* references it is in the store; and no state has a line item whose bill row is gone.
C6_DeleteOrder ==
  /\ [](\A it \in bill_items : it.bill_id \in DOMAIN bills)
  /\ [][/\ RowDelete => del.pc = "deleteBill"
        /\ (del'.pc = "deleteBill" /\ del.pc # "deleteBill") =>
             /\ event'.fn = "deleteBill" /\ event'.table = "bill_items"
             /\ event'.op = "delete"
        /\ (\E b \in DOMAIN bills : b \notin DOMAIN bills') => RowDelete /\ event'.ok
        /\ (RowDelete /\ event'.ok) =>
             /\ billToDelete \notin DOMAIN bills'
             /\ \A it \in bill_items' : it.bill_id # billToDelete]_vars

\* a bill that had line items was deleted from the bills page
C6_Witness ==
  /\ event.fn = "deleteBill" /\ event.table = "bills" /\ event.op = "delete" /\ event.ok
  /\ nextBillId > 1 /\ nextItemId > 1
  /\ bills = << >> /\ bill_items = {}

\* C7: when the line-item insert of saveBill fails after the bill row was written,
\* an error notification is raised, the bill row stays as written, and the save
\* stops: the cart is not cleared, nothing is printed, and neither the drafts list
\* nor today's revenue is refreshed.
C7_ItemsInsertFails ==
  [][\A s \in Sessions :
       (/\ event'.fn = "saveBill" /\ event'.who = s
        /\ event'.table = "bill_items" /\ event'.op = "insert" /\ ~event'.ok) =>
         LET b == save[s].billId
         IN /\ event'.toast = "Error saving items" /\ event'.variant = "destructive"
            /\ UNCHANGED <<bills, bill_items>>
            /\ b \in DOMAIN bills'
            /\ bills'[b] = Row(save[s].billData, bills[b].bill_number, bills[b].date)
            /\ UNCHANGED cartVars /\ cart'[s] = save[s].cart
            /\ UNCHANGED print /\ ~event'.printed
            /\ UNCHANGED <<fetchVars, savedBills, todayRevenue>>
            /\ save'[s].pc = "idle"]_vars

\* the line-item insert of a save failed: the bill row is there without line items
\* and the cart is still filled
C7_Witness ==
  \E s \in Sessions :
    /\ event.fn = "saveBill" /\ event.who = s /\ event.table = "bill_items"
    /\ event.op = "insert" /\ ~event.ok
    /\ cart[s] # <<>>
    /\ \E b \in DOMAIN bills : ItemsOf(b) = {}

\* the handlers of the save, load, delete and print flows
Flows == {"saveBill", "loadBill", "loadBillById", "deleteBill", "printBill"}

\* after the step the handler that issued the operation of the step has returned
Abandoned ==
  LET s == event'.who
  IN CASE event'.fn = "saveBill"   -> save'[s].pc = "idle"
       [] event'.fn \in {"loadBill", "loadBillById"} -> load'[s].pc = "idle"
       [] event'.fn = "printBill"  -> print'[s].pc = "idle"
       [] event'.fn = "deleteBill" -> del'.pc = "idle"
       [] OTHER -> TRUE

\* C8: every store operation of the save, load, delete and print flows that returns
\* an error raises an error notification and ends the user action at that step.
C8_FailureSurfaced ==
  [][(event'.op # "" /\ ~event'.ok /\ event'.fn \in Flows) =>
       /\ event'.toast # "" /\ event'.variant = "destructive"
       /\ Abandoned]_vars

\* C9: a bill with status 'saved' or 'printed' never goes back to status 'draft'.
C9_Monotonic ==
  [][\A b \in DOMAIN bills :
       (bills[b].status \in {"saved", "printed"} /\ b \in DOMAIN bills') =>
         bills'[b].status # "draft"]_vars

\* the bills table without row b
Without(b) == [x \in DOMAIN bills \ {b} |-> bills[x]]

\* C10: a successful saveBill starts a re-query of the drafts list and of today's
\* revenue; after a successful saveBill(false) of a new cart with total T the
\* revenue the re-query computes is T more than the revenue without the new bill.
C10_RefreshAfterSave ==
  [][\A s \in Sessions :
       SavedOk(s) =>
         /\ pendingSaved'[s] /\ pendingRevenue'[s]
         /\ (save[s].currentBillId = NoId /\ ~save[s].printAfter) =>
              RevenueOf(bills') =
                RevenueOf(Without(save[s].billId)) + decimal2(save[s].billData.total)]_vars

\* C11: every bill row written by saveBill has total = subtotal + tax_amount -
\* discount on its persisted fields, in every store state, also after a failed
\* line-item insert.
C11_TotalOfPersisted ==
  \A b \in DOMAIN bills :
    bills[b].total = bills[b].subtotal + bills[b].tax_amount - bills[b].discount

\* C12: the cart of every terminal holds at most one line per menu item (the menu
\* items of the model have distinct names), whatever addToCart, updateQuantity,
\* removeItem, loadBill and clearCart did: adding an item the cart already has,
\* one restored by loadBill included, makes no second line.
C12_OneLinePerItem ==
  \A s \in Sessions : \A i, j \in DOMAIN cart[s] :
    i # j => cart[s][i].name # cart[s][j].name

\* the cart c without its line i
Dropped(c, i) == SubSeq(c, 1, i - 1) \o SubSeq(c, i + 1, Len(c))

\* C13: every cart line has quantity >= 1; on every cart a terminal holds, addToCart
\* appends a line with quantity 1 or adds 1 to the line of the item, and
\* updateQuantity drops the line whose quantity would become 0 or less and changes
\* the quantity of that line only otherwise, the other lines staying as they are.
C13_QuantityAtLeastOne ==
  \A s \in Sessions :
    LET c == cart[s] IN
    /\ \A i \in DOMAIN c : c[i].quantity >= 1
    /\ \A item \in menuItems :
         LET r == addToCart(c, item) IN
         IF \E i \in DOMAIN c : c[i].id = item.id
         THEN r = [i \in DOMAIN c |->
                     IF c[i].id = item.id
                     THEN [c[i] EXCEPT !.quantity = c[i].quantity + 1] ELSE c[i]]
         ELSE /\ Len(r) = Len(c) + 1 /\ SubSeq(r, 1, Len(c)) = c
              /\ r[Len(r)].id = item.id /\ r[Len(r)].quantity = 1
    /\ \A i \in DOMAIN c : \A change \in {-1, 1} :
         LET r == updateQuantity(c, c[i].id, change) IN
         IF c[i].quantity + change <= 0
         THEN r = Dropped(c, i)
         ELSE r = [c EXCEPT ![i].quantity = c[i].quantity + change]

\* the plus button raised the quantity of a line that loadBill restored, beside a
\* line that addToCart appended
C13_Witness ==
  \E s \in Sessions :
    /\ event.fn = "edit" /\ event.who = s /\ currentBillId[s] # NoId
    /\ Len(cart[s]) = 2
    /\ cart[s][1].category = "Uncategorized" /\ cart[s][1].quantity = 2
    /\ cart[s][2].category # "Uncategorized" /\ cart[s][2].quantity = 1

\* C14: clearCart empties the cart, sets the discount to 0, the payment method to
\* none and the bound bill id to none, issues no store operation and leaves every
\* bill row and line item as it was.
C14_ClearCart ==
  [][\A s \in Sessions :
       (event'.fn = "clearCart" /\ event'.who = s) =>
         /\ cart'[s] = <<>> /\ discount'[s] = 0
         /\ paymentMethod'[s] = "" /\ currentBillId'[s] = NoId
         /\ event'.op = "" /\ event'.table = ""
         /\ UNCHANGED <<storeVars, failures>>
         /\ save'[s].pc = "idle" /\ load'[s].pc = "idle" /\ print'[s].pc = "idle"
         /\ UNCHANGED fetchVars]_vars

\* Clear was clicked while the store held a bill with line items
C14_Witness ==
  \E s \in Sessions :
    /\ event.fn = "clearCart" /\ event.who = s
    /\ cart[s] = <<>> /\ currentBillId[s] = NoId
    /\ \E b \in DOMAIN bills : ItemsOf(b) # {}

\* bill b was created and its row has been deleted
Deleted(b) == b \in 1..(nextBillId - 1) /\ b \notin DOMAIN bills

\* C15: loadBill on the id of a deleted bill fails with a not-found condition: no
\* step of it changes the cart or binds the id, and when it ends the failure is
\* shown to the user.
C15_LoadDeleted ==
  [][\A s \in Sessions :
       (/\ load[s].pc # "idle" /\ Deleted(load[s].billId)
        /\ event'.who = s /\ event'.fn \in {"loadBill", "loadBillById"}) =>
         /\ cart'[s] = cart[s]
         /\ currentBillId'[s] = currentBillId[s]
         /\ load'[s].pc = "idle" => event'.variant = "destructive"]_vars

\* C16: last writer wins.  Of the saves of terminals that have loaded the same
\* bill, the one that completes last (no other save in flight, no store operation
\* failed, a save that completed since its own delete ran with the bill id bound
\* too) leaves the bill row and the full set of the bill's line items as it wrote
\* them: the line items never mix the carts of two saves.
C16_LastWriterWins ==
  [][\A s \in Sessions :
       LET b == save[s].currentBillId IN
       (/\ SavedOk(s) /\ b # NoId /\ failures' = 0
        /\ \A o \in Sessions \ {s} : save[o].pc = "idle"
        /\ b \in DOMAIN saved => saved[b].bound) =>
         /\ b \in DOMAIN bills'
         /\ bills'[b] = Row(save[s].billData, bills'[b].bill_number, bills'[b].date)
         /\ { it \in bill_items' : it.bill_id = b } =
              ItemRows(save[s].cart, b, nextItemId)]_vars

\* name, price and quantity of each snapshot row of S, with multiplicity
SnapshotBag(S) ==
  LET key(it) == <<it.item_name_snapshot, it.price_snapshot, it.quantity>>
  IN [k \in { key(it) : it \in S } |-> Cardinality({ it \in S : key(it) = k })]

\* the step is a change of the menu
MenuChange == event'.fn \in {"updateMenuItem", "deleteMenuItem"}

\* C17: a change or removal of a menu item changes no bill row and no line item; and
\* a saveBill of a loaded bill whose cart is what loadBill restored from the stored
\* line items writes back the stored names, prices and quantities, whatever the
\* menu holds by then.
C17_SnapshotsDecoupled ==
  [][/\ MenuChange => UNCHANGED <<bills, bill_items>>
     /\ \A s \in Sessions :
          LET b == currentBillId[s] IN
          (/\ event'.fn = "saveBill" /\ event'.who = s /\ event'.op = ""
           /\ b # NoId /\ cart[s] # <<>>
           /\ cart[s] = cartOfItems(SortById(ItemsOf(b)))) =>
            SnapshotBag(ItemRows(save'[s].cart, b, nextItemId)) = SnapshotBag(ItemsOf(b))
     /\ \A s \in Sessions :
          SavedOk(s) =>
            bill_items' \ bill_items = ItemRows(save[s].cart, save[s].billId, nextItemId)]_vars

\* a loaded bill was saved again after its menu item got another price or name or
\* was removed: the bill still holds the Tea line at the price of the sale
C17_Witness ==
  /\ event.fn = "saveBill" /\ event.table = "bill_items" /\ event.op = "insert" /\ event.ok
  /\ \E b \in DOMAIN saved :
       /\ saved[b].bound
       /\ \E it \in ItemsOf(b) :
            /\ it.item_name_snapshot = "Tea" /\ it.price_snapshot = 1000
            /\ \A m \in menu_items : <<m.name, m.price>> # <<"Tea", 1000>>

\* the bills a report of [start, end] is about: not drafts, dated within the range
InRange(start, end) ==
  { b \in DOMAIN bills :
      bills[b].status # "draft" /\ lte(start, bills[b].date) /\ lte(bills[b].date, end) }

RECURSIVE TotalOver(_)
\* the sum of the stored totals of the bills S
TotalOver(S) ==
  IF S = {} THEN 0
  ELSE LET b == CHOOSE x \in S : TRUE
       IN bills[b].total + TotalOver(S \ {b})

\* the step is the query of fetchRevenueData coming back with rows
ReportDone == event'.fn = "fetchRevenueData" /\ event'.ok

\* C18: fetchRevenueData sets the total revenue to the sum of total over exactly the
\* bills that are not drafts and are dated within [startDate, endDate], both ends
\* included, the bill count to their number and the average to total revenue over
\* bill count; fetchTodayRevenue sums no draft and fetchBills lists no draft.
C18_RevenueReport ==
  [][/\ ReportDone =>
          LET S == InRange(startDate, endDate) IN
          /\ totalRevenue' = TotalOver(S)
          /\ totalBills' = Cardinality(S)
          /\ S # {} => avgBillValue' = Quotient(TotalOver(S), Cardinality(S))
     /\ \A s \in Sessions :
          (event'.fn = "fetchTodayRevenue" /\ event'.who = s /\ event'.ok) =>
            todayRevenue'[s] =
              TotalOver({ b \in DOMAIN bills : /\ bills[b].status # "draft"
                                              /\ lte(startOfDay(now), bills[b].date) })
     /\ (event'.fn = "fetchBills" /\ event'.ok) =>
          \A i \in DOMAIN previousBills' : bills[previousBills'[i]].status # "draft"]_vars

\* a report came back for a range that holds a draft and ends at the very instant
\* of a printed bill: the printed bill alone is counted
C18_Witness ==
  /\ event.fn = "fetchRevenueData" /\ event.ok
  /\ \E d, b \in DOMAIN bills :
       /\ bills[d].status = "draft"
       /\ lte(startDate, bills[d].date) /\ lte(bills[d].date, endDate)
       /\ bills[b].status # "draft" /\ bills[b].date = endDate
       /\ totalBills = 1 /\ totalRevenue = bills[b].total
       /\ avgBillValue = Quotient(bills[b].total, 1)

\* C19: when no bill that is not a draft is dated within the range, fetchRevenueData
\* sets total revenue, bill count and average bill value to 0 and both series to
\* empty; the average is never a quotient by zero.
C19_EmptyRange ==
  /\ [](avgBillValue.den # 0)
  /\ [][(ReportDone /\ InRange(startDate, endDate) = {}) =>
          /\ totalRevenue' = 0 /\ totalBills' = 0 /\ avgBillValue' = Zero
          /\ revenueData' = <<>> /\ paymentData' = <<>>]_vars

\* a report came back empty although the store holds a printed bill outside the
\* range and a draft inside it
C19_Witness ==
  /\ event.fn = "fetchRevenueData" /\ event.ok
  /\ InRange(startDate, endDate) = {}
  /\ totalBills = 0 /\ revenueData = <<>>
  /\ \E d, b \in DOMAIN bills :
       /\ bills[d].status = "draft"
       /\ lte(startDate, bills[d].date) /\ lte(bills[d].date, endDate)
       /\ bills[b].status # "draft"

\* C20: the date series has one bucket per calendar day (year, month and day) with
\* a bill in range; the bucket of a day counts the bills of that day and sums their
\* totals, and the counts of the buckets add up to the bill count.
C20_BucketsByDay ==
  [][ReportDone =>
       LET S == InRange(startDate, endDate)
           days == { startOfDay(bills[b].date) : b \in S }
           OfDay(D) == { b \in S : startOfDay(bills[b].date) = D }
           AddCount(sum, bucket) == sum + bucket.bills
       IN /\ Len(revenueData') = Cardinality(days)
          /\ \A D \in days : \E i \in DOMAIN revenueData' :
               /\ revenueData'[i].date = formatMMMdd(D)
               /\ revenueData'[i].bills = Cardinality(OfDay(D))
               /\ revenueData'[i].revenue = TotalOver(OfDay(D))
          /\ Reduce(AddCount, revenueData', 0) = totalBills']_vars

\* the lines of the receipt that are item rows, in the order of the items
ItemLines == SelectSeq(receipt.lines, LAMBDA l : l.kind = "item")

\* C21: with a shop name of at most 32 characters, quantities up to 999, unit prices
\* up to 99.99 and line totals up to 999.99, every line of the text receipt is at
\* most 32 characters wide, and an item row is as wide as the column header row.
C21_ReceiptWidth ==
  (/\ receipt.path = "text"
   /\ Len(receiptArgs.settings.shop_name) <= 32
   /\ \A i \in DOMAIN receiptArgs.items :
        /\ receiptArgs.items[i].quantity <= 999
        /\ receiptArgs.items[i].price_snapshot <= 999900
        /\ receiptArgs.items[i].line_total <= 9999900) =>
    /\ \A i \in DOMAIN receipt.lines : Len(receipt.lines[i].text) <= 32
    /\ \A i \in DOMAIN ItemLines : Len(ItemLines[i].text) = Len(columnHeader)

\* text begins with the characters of prefix
StartsWith(text, prefix) ==
  Len(text) >= Len(prefix) /\ SubSeq(text, 1, Len(prefix)) = prefix

\* text ends with the characters of suffix
EndsWith(text, suffix) ==
  Len(text) >= Len(suffix)
    /\ SubSeq(text, Len(text) - Len(suffix) + 1, Len(text)) = suffix

\* C22: the receipt, text or HTML, has a Discount line exactly when the discount of
\* the persisted bill is greater than 0; it always has one TOTAL line, which shows the
\* persisted total, whatever the discount is.
C22_DiscountLine ==
  receipt.path # "" =>
    LET Discounts_ == { i \in DOMAIN receipt.lines :
                          StartsWith(receipt.lines[i].text, <<"D", "i", "s", "c", "o", "u", "n", "t", ":">>) }
        Totals_    == { i \in DOMAIN receipt.lines :
                          StartsWith(receipt.lines[i].text, <<"T", "O", "T", "A", "L", ":">>) }
    IN /\ (Discounts_ # {}) <=> (receiptArgs.bill.discount > 0)
       /\ Cardinality(Discounts_) <= 1
       /\ \A i \in Discounts_ :
            EndsWith(receipt.lines[i].text, toFixed(receiptArgs.bill.discount))
       /\ Cardinality(Totals_) = 1
       /\ \A i \in Totals_ : EndsWith(receipt.lines[i].text, toFixed(receiptArgs.bill.total))

\* a text receipt of a bill with a negative discount: no Discount line, and the
\* TOTAL is above subtotal plus tax
C22_Witness ==
  /\ receipt.path = "text"
  /\ receiptArgs.bill.discount < 0
  /\ receiptArgs.bill.total > receiptArgs.bill.subtotal + receiptArgs.bill.tax_amount
  /\ \A i \in DOMAIN receipt.lines : receipt.lines[i].kind # "discount"
  /\ \E i \in DOMAIN receipt.lines :
       /\ receipt.lines[i].kind = "total"
       /\ EndsWith(receipt.lines[i].text, toFixed(receiptArgs.bill.total))

\* C23: in the text receipt the item-name column is exactly 16 characters: the first
\* 13 characters and three dots of a name longer than 16, the name followed by
\* spaces up to 16 otherwise; the column separator follows.
C23_NameColumn ==
  receipt.path = "text" =>
    /\ Len(ItemLines) = Len(receiptArgs.items)
    /\ \A i \in DOMAIN ItemLines :
         LET name == receiptArgs.items[i].item_name_snapshot
             text == ItemLines[i].text
         IN /\ Len(text) >= 17
            /\ SubSeq(text, 1, 16) =
                 IF Len(name) > 16
                 THEN [k \in 1..16 |-> IF k <= 13 THEN name[k] ELSE "."]
                 ELSE [k \in 1..16 |-> IF k <= Len(name) THEN name[k] ELSE " "]
            /\ text[17] = " "
            /\ SubSeq(text, 18, Len(text)) =
                 padStart(toString(receiptArgs.items[i].quantity), 3) \o <<" ">>
                   \o padStart(toFixed(receiptArgs.items[i].price_snapshot), 5) \o <<" ">>
                   \o padStart(toFixed(receiptArgs.items[i].line_total), 6)

\* a text receipt with a name of 20 characters, cut, and one of 16, printed whole
C23_Witness ==
  /\ receipt.path = "text"
  /\ \E i, j \in DOMAIN receiptArgs.items :
       /\ Len(receiptArgs.items[i].item_name_snapshot) = 20
       /\ Len(receiptArgs.items[j].item_name_snapshot) = 16
       /\ SubSeq(ItemLines[i].text, 1, 16) = <<"C", "h", "i", "c", "k", "e", "n", " ", "B", "i", "r", "y", "a", ".", ".", ".">>
       /\ SubSeq(ItemLines[j].text, 1, 16) = <<"M", "a", "s", "a", "l", "a", " ", "D", "o", "s", "a", " ", "R", "o", "l", "l">>

RECURSIVE LineTotalOver(_)
\* the sum of line_total over the line items S
LineTotalOver(S) ==
  IF S = {} THEN 0
  ELSE LET it == CHOOSE x \in S : TRUE
       IN it.line_total + LineTotalOver(S \ {it})

\* C24: whenever no saveBill and no deleteBill is in flight, every bill in the store
\* has at least one line item and its subtotal is the sum of line_total over its
\* line items.
C24_BillHasItems ==
  ((\A s \in Sessions : save[s].pc = "idle") /\ del.pc = "idle") =>
    \A b \in DOMAIN bills :
      /\ ItemsOf(b) # {}
      /\ bills[b].subtotal = LineTotalOver(ItemsOf(b))

\* the carts composed so far: one per save that went through and cleared the cart,
\* and the one on the terminal now
CartsComposed ==
  Cardinality({ b \in DOMAIN bills : ItemsOf(b) # {} })
    + Cardinality({ s \in Terminals : cart[s] # <<>> \/ save[s].pc # "idle" })

\* C25: composing one cart produces at most one bill row: the store never holds
\* more bill rows than carts were composed, also when saveBill is invoked again after
\* the line-item insert of a new bill failed.
C25_OneRowPerCart == Cardinality(DOMAIN bills) <= CartsComposed

\* C26: whenever loadBill replaces the cart of a terminal with the line items of
\* bill B, the bill id bound on the terminal afterwards is B, also when the fetch of
\* the bill row returns nothing.
C26_CartOfBoundBill ==
  [][\A s \in Sessions :
       (/\ event'.fn = "loadBill" /\ event'.who = s /\ event'.table = "bills"
        /\ load[s].billItems # <<>>
        /\ cart'[s] = cartOfItems(load[s].billItems)) =>
         currentBillId'[s] = load[s].billId]_vars

\* C27: every bill row saveBill writes has tax_amount = subtotal * p / 100, p the
\* tax_percentage of the settings row at the time of the write, also when the
\* terminal's fetchSettings has not come back yet or has failed.
C27_TaxOfSettingsRow ==
  [][\A s \in Sessions :
       (/\ event'.fn = "saveBill" /\ event'.who = s /\ event'.table = "bills"
        /\ event'.ok) =>
         LET b == IF save[s].currentBillId # NoId THEN save[s].currentBillId
                  ELSE nextBillId
         IN /\ b \in DOMAIN bills'
            /\ bills'[b].tax_amount =
                 decimal2((bills'[b].subtotal * settingsRow.tax_percentage) \div 100)]_vars

\* C28: a bill is left with status 'printed' only if the print of its receipt was
\* triggered: when the printBill that saveBill(true) started ends without having
\* written a receipt (the bill or its items could not be read, or the print window
\* did not open), the bill does not have status 'printed'.
C28_PrintedWasPrinted ==
  [][\A s \in Sessions :
       (/\ event'.fn = "printBill" /\ event'.who = s
        /\ print[s].pc # "idle" /\ print'[s].pc = "idle"
        /\ ~event'.printed
        /\ print[s].billId \in DOMAIN bills') =>
         bills'[print[s].billId].status # "printed"]_vars

\* C29: once every fetchRevenueData has come back, and none of them with an error,
\* the total revenue, the bill count, the average and both series on the page are
\* those of the range selected now, in whatever order the fetches came back.
C29_ReportOfSelectedRange ==
  (pendingReport = {} /\ failures = 0) =>
    LET r == revenueReport(bills, selectBills(bills, startDate, endDate))
    IN /\ totalRevenue = r.totalRevenue
       /\ totalBills = r.totalBills
       /\ avgBillValue = r.avgBillValue
       /\ revenueData = r.revenueData
       /\ paymentData = r.paymentData

\* the sum of the totals of the bills listed in the table of the document
ListedTotal == LET AddTotal(sum, bill) == sum + bill.total IN Reduce(AddTotal, pdf.bills, 0)

\* C30: in a PDF report downloadPDF produced -- here one whose download was clicked
\* with no fetchRevenueData on its way and no store call having failed -- the summary's
\* Total Revenue is the sum of the totals of the bills listed in the table and its
\* Average Bill is that sum divided by the number of listed bills.
C30_PdfSummaryOfListedBills ==
  (pdf.saved /\ ~pdf.fetching /\ failures = 0) =>
    /\ pdf.totalRevenue = Rupee(ListedTotal)
    /\ pdf.avgBillValue = <<"INR">> \o toFixedOfQuotient(Quotient(ListedTotal, Len(pdf.bills)))

====
